---- MODULE Spec2Model ----
(***************************************************************************)
(* Model of duplicaCI's executor package (command composition, binary      *)
(* discovery, process execution).                                           *)
(*                                                                         *)
(* Strings are sequences of atoms.  An atom is either one character that   *)
(* matters to a shell or to the Go string functions used by the code       *)
(* (quote, double quote, backslash, dollar, backtick, space, newline, '-') *)
(* or a run of ordinary characters ("docker", "duplicacy", ...).           *)
(***************************************************************************)
EXTENDS Integers, Sequences, FiniteSets, TLC

\* ------------------------------------------------------------------ bounds
MaxPwLen == 2
MaxCalls == 2

\* ------------------------------------------------------------ characters
SQ == "'"
DQ == "\""
BS == "\\"
DOLLAR == "$"
\* the backtick character (the atom is spelled out: a TLA+ string cannot hold it)
BQ == "<backtick>"
SP == " "
NL == "\n"

\* ------------------------------------------------------- string helpers
\* strings.ReplaceAll(s, old, new) for a one-character old
RECURSIVE ReplaceAll(_, _, _)
ReplaceAll(s, old, new) ==
    IF s = <<>> THEN <<>>
    ELSE IF Len(s) = 1 THEN (IF s[1] = old THEN new ELSE s)
    ELSE LET mid == Len(s) \div 2 IN
         ReplaceAll(SubSeq(s, 1, mid), old, new) \o ReplaceAll(SubSeq(s, mid + 1, Len(s)), old, new)

\* strings.Join(elems, sep)
RECURSIVE Join(_, _)
Join(elems, sep) ==
    IF elems = <<>> THEN <<>>
    ELSE IF Len(elems) = 1 THEN elems[1]
    ELSE elems[1] \o sep \o Join(Tail(elems), sep)

\* strings.ToUpper on the letters that occur in the modelled names
UpperOf(c) ==
    CASE c = "a" -> "A" [] c = "b" -> "B" [] c = "g" -> "G" [] c = "s" -> "S"
      [] OTHER -> c

ToUpper(s) == [i \in 1..Len(s) |-> UpperOf(s[i])]

IsSpace(c) == c \in {SP, NL, "\t", "\r"}

\* strings.TrimSpace
RECURSIVE TrimLeft(_)
TrimLeft(s) == IF s # <<>> /\ IsSpace(Head(s)) THEN TrimLeft(Tail(s)) ELSE s

RECURSIVE TrimRight(_)
TrimRight(s) ==
    IF s # <<>> /\ IsSpace(s[Len(s)]) THEN TrimRight(SubSeq(s, 1, Len(s) - 1)) ELSE s

TrimSpace(s) == TrimRight(TrimLeft(s))

\* ------------------------------------------------------ command composer
\* variant: a backslash put before every single quote
EscapeSingleQuotesBackslash(s) == ReplaceAll(s, SQ, <<BS, SQ>>)

\* every single quote replaced by quote, double quote, quote, double quote, quote
EscapeSingleQuotes(s) == ReplaceAll(s, SQ, <<SQ, DQ, SQ, DQ, SQ>>)

\* variant: the backslash escaped last, after the escapes were put in
EscapePasswordBackslashLast(pw) ==
    ReplaceAll(ReplaceAll(ReplaceAll(ReplaceAll(pw,
        DQ, <<BS, DQ>>), DOLLAR, <<BS, DOLLAR>>), BQ, <<BS, BQ>>), BS, <<BS, BS>>)

\* escaping of the credential for a double-quoted string
EscapePassword(pw) ==
    ReplaceAll(ReplaceAll(ReplaceAll(ReplaceAll(pw,
        BS, <<BS, BS>>), DQ, <<BS, DQ>>), DOLLAR, <<BS, DOLLAR>>), BQ, <<BS, BQ>>)

\* name of the environment variable prefix of a storage
EnvName(storageName) == ToUpper(ReplaceAll(storageName, "-", <<"_">>))

\* variant: the map is consulted for the empty name too
getStoragePasswordAnyName(o, storageName) ==
    IF ~o.StoragePasswords.isNil /\ storageName \in DOMAIN o.StoragePasswords.m
    THEN o.StoragePasswords.m[storageName]
    ELSE o.StoragePassword

getStoragePassword(o, storageName) ==
    IF storageName # <<>> /\ ~o.StoragePasswords.isNil
          /\ storageName \in DOMAIN o.StoragePasswords.m
    THEN o.StoragePasswords.m[storageName]
    ELSE o.StoragePassword

\* working directory: CacheDir takes precedence over RepoPath
WorkDir(o) == IF o.CacheDir = <<>> THEN o.RepoPath ELSE o.CacheDir

BaseCommand(duplicacyBin, args) == duplicacyBin \o <<SP>> \o Join(args, <<SP>>)

WithWorkDir(o, cmd) ==
    IF WorkDir(o) # <<>>
    THEN <<"cd", SP>> \o WorkDir(o) \o <<SP, "&&", SP>> \o cmd
    ELSE cmd

PasswordExports(storageName, escapedPw) ==
    <<"export", SP, "DUPLICACY_PASSWORD=", DQ>> \o escapedPw \o <<DQ>>
    \o (IF storageName # <<>>
        THEN <<SP, "&&", SP, "export", SP, "DUPLICACY_">> \o EnvName(storageName)
                \o <<"_PASSWORD=", DQ>> \o escapedPw \o <<DQ>>
        ELSE <<>>)

WithPassword(password, storageName, shellCmd) ==
    IF password # <<>>
    THEN PasswordExports(storageName, EscapePassword(password)) \o <<SP, "&&", SP>> \o shellCmd
    ELSE shellCmd

WithGCDToken(o, storageName, shellCmd) ==
    IF o.GCDToken # <<>> /\ storageName # <<>>
    THEN <<"export", SP, "DUPLICACY_">> \o EnvName(storageName) \o <<"_GCD_TOKEN=", DQ>>
            \o o.GCDToken \o <<DQ, SP, "&&", SP>> \o shellCmd
    ELSE shellCmd

\* variant: the inner shell is always used
NeedsShellAlways(workDir, password) == TRUE

NeedsShell(workDir, password) == workDir # <<>> \/ password # <<>>

DockerWrap(o, storageName, cmd) ==
    IF o.DockerContainer # <<>>
    THEN LET password == getStoragePassword(o, storageName) IN
         IF NeedsShell(WorkDir(o), password)
         THEN <<"docker", SP, "exec", SP>> \o o.DockerContainer \o <<SP, "sh", SP, "-c", SP, SQ>>
                 \o WithGCDToken(o, storageName, WithPassword(password, storageName, cmd))
                 \o <<SQ>>
         ELSE <<"docker", SP, "exec", SP>> \o o.DockerContainer \o <<SP>> \o cmd
    ELSE cmd

SSHFlags == <<"ssh", SP, "-o", SP, "StrictHostKeyChecking=no", SP, "-o", SP, "LogLevel=ERROR", SP>>

SSHWrap(o, cmd) ==
    IF o.SSHHost # <<>>
    THEN LET ssh == SSHFlags \o o.SSHHost \o <<SP, SQ>> \o EscapeSingleQuotes(cmd) \o <<SQ>> IN
         IF o.SSHPassword # <<>>
         THEN <<"sshpass", SP, "-p", SP, SQ>> \o EscapeSingleQuotes(o.SSHPassword)
                 \o <<SQ, SP>> \o ssh
         ELSE ssh
    ELSE cmd

\* variant: the remote wrapping applied before the container wrapping
buildCommandRemoteFirst(o, duplicacyBin, args, storageName) ==
    DockerWrap(o, storageName, SSHWrap(o, WithWorkDir(o, BaseCommand(duplicacyBin, args))))

buildCommandWithStorage(o, duplicacyBin, args, storageName) ==
    SSHWrap(o, DockerWrap(o, storageName, WithWorkDir(o, BaseCommand(duplicacyBin, args))))

\* ------------------------------------------------------------ POSIX shell
\* Quote removal and word splitting of a command line as a POSIX shell does
\* it (XCU 2.2 Quoting, 2.6.5 Field Splitting for literal text).  A command
\* line is a list of simple commands separated by the && operator; a simple
\* command is a list of words.  An unquoted parameter expansion or command
\* substitution puts the atom "<expansion>" in the word: its value is not
\* the text that was written.

\* whether the dollar sign before c starts a parameter expansion
IsName(c) == c \notin {SQ, DQ, BS, DOLLAR, BQ, SP, NL, "\t", "\r", "&&"}

ShInit == [ok |-> TRUE, q |-> "plain", p |-> "none", cur |-> <<>>, inWord |-> FALSE,
           words |-> <<>>, cmds |-> <<>>]

Put(st, c) == [st EXCEPT !.cur = Append(@, c), !.inWord = TRUE, !.p = "none"]

EndWord(st) ==
    [st EXCEPT !.words = IF st.inWord THEN Append(@, st.cur) ELSE @,
               !.cur = <<>>, !.inWord = FALSE]

EndCommand(st) ==
    LET w == EndWord(st) IN
    IF w.words = <<>> THEN [st EXCEPT !.ok = FALSE]
    ELSE [w EXCEPT !.cmds = Append(@, w.words), !.words = <<>>]

\* one character c read in lexer state st
RECURSIVE ShStep(_, _)
ShStep(st, c) ==
    CASE ~st.ok -> st
      [] st.p = "esc" /\ st.q = "plain" ->
            IF c = NL THEN [st EXCEPT !.p = "none"] ELSE Put(st, c)
      [] st.p = "esc" /\ st.q = "dq" ->
            IF c \in {DOLLAR, BQ, DQ, BS} THEN Put(st, c)
            ELSE IF c = NL THEN [st EXCEPT !.p = "none"]
            ELSE Put(Put(st, BS), c)
      [] st.p = "dollar" ->
            IF IsName(c) THEN Put(st, "<expansion>")
            ELSE ShStep(Put(st, DOLLAR), c)
      [] st.p = "bq" ->
            IF c = BQ THEN Put(st, "<expansion>")
            ELSE IF c = BS THEN [st EXCEPT !.p = "bqesc"]
            ELSE st
      [] st.p = "bqesc" -> [st EXCEPT !.p = "bq"]
      [] st.p = "none" /\ st.q = "sq" ->
            IF c = SQ THEN [st EXCEPT !.q = "plain"] ELSE Put(st, c)
      [] st.p = "none" /\ st.q # "sq" /\ c = DOLLAR -> [st EXCEPT !.p = "dollar", !.inWord = TRUE]
      [] st.p = "none" /\ st.q # "sq" /\ c = BQ -> [st EXCEPT !.p = "bq", !.inWord = TRUE]
      [] st.p = "none" /\ st.q # "sq" /\ c = BS -> [st EXCEPT !.p = "esc", !.inWord = TRUE]
      [] st.p = "none" /\ st.q = "dq" /\ c \notin {DOLLAR, BQ, BS} ->
            IF c = DQ THEN [st EXCEPT !.q = "plain"] ELSE Put(st, c)
      [] st.p = "none" /\ st.q = "plain" /\ c \notin {DOLLAR, BQ, BS} ->
            IF c = SQ THEN [st EXCEPT !.q = "sq", !.inWord = TRUE]
            ELSE IF c = DQ THEN [st EXCEPT !.q = "dq", !.inWord = TRUE]
            ELSE IF IsSpace(c) THEN EndWord(st)
            ELSE IF c = "&&" THEN EndCommand(st)
            ELSE Put(st, c)

\* end of input: an open quote or command substitution is a syntax error, a
\* trailing dollar or backslash is literal, a trailing && lacks its command
ShEnd(st) ==
    LET t == IF st.p = "dollar" THEN Put(st, DOLLAR)
             ELSE IF st.p = "esc" /\ st.q = "plain" THEN Put(st, BS)
             ELSE st
        w == EndWord(t)
    IN
    IF ~t.ok \/ t.q # "plain" \/ t.p # "none" THEN [ok |-> FALSE, cmds |-> <<>>]
    ELSE IF w.words = <<>> /\ w.cmds # <<>> THEN [ok |-> FALSE, cmds |-> <<>>]
    ELSE [ok |-> TRUE, cmds |-> IF w.words = <<>> THEN w.cmds ELSE Append(w.cmds, w.words)]

\* the lexer state after reading s[lo..hi] from state st (the text is read
\* left to right; the recursion splits it in halves to stay shallow)
RECURSIVE ShRun(_, _, _, _)
ShRun(s, lo, hi, st) ==
    IF lo > hi THEN st
    ELSE IF lo = hi THEN ShStep(st, s[lo])
    ELSE LET mid == (lo + hi) \div 2
             left == ShRun(s, lo, mid, st)
         IN IF left.ok \in BOOLEAN THEN ShRun(s, mid + 1, hi, left) ELSE left

\* the commands a shell runs for the command line s
ShellParse(s) == ShEnd(ShRun(s, 1, Len(s), ShInit))

RECURSIVE SkipToBackquote(_)
SkipToBackquote(s) ==
    IF s = <<>> THEN <<"<unterminated>">>
    ELSE IF Head(s) = BQ THEN Tail(s)
    ELSE IF Head(s) = BS /\ Len(s) > 1 THEN SkipToBackquote(Tail(Tail(s)))
    ELSE SkipToBackquote(Tail(s))

\* the value of a double-quoted string that starts at the head of s (which is
\* its opening double quote), and the text that follows its closing quote
RECURSIVE DQValue(_, _)
DQValue(s, acc) ==
    IF s = <<>> THEN [ok |-> FALSE, value |-> acc, rest |-> <<>>]
    ELSE IF Head(s) = DQ THEN [ok |-> TRUE, value |-> acc, rest |-> Tail(s)]
    ELSE IF Head(s) = BS /\ Len(s) > 1 /\ s[2] \in {DOLLAR, BQ, DQ, BS}
         THEN DQValue(Tail(Tail(s)), Append(acc, s[2]))
    ELSE IF Head(s) = BS /\ Len(s) > 1 /\ s[2] = NL THEN DQValue(Tail(Tail(s)), acc)
    ELSE IF Head(s) = DOLLAR /\ Len(s) > 1 /\ IsName(s[2])
         THEN DQValue(Tail(Tail(s)), Append(acc, "<expansion>"))
    ELSE IF Head(s) = BQ
         THEN IF SkipToBackquote(Tail(s)) = <<"<unterminated>">>
              THEN [ok |-> FALSE, value |-> acc, rest |-> <<>>]
              ELSE DQValue(SkipToBackquote(Tail(s)), Append(acc, "<expansion>"))
    ELSE DQValue(Tail(s), Append(acc, Head(s)))

DoubleQuoted(s) ==
    IF s # <<>> /\ Head(s) = DQ THEN DQValue(Tail(s), <<>>)
    ELSE [ok |-> FALSE, value |-> <<>>, rest |-> s]

\* ---------------------------------------------------------------- inputs
PwChars == {"a", SQ, DQ, BS, DOLLAR, BQ}

RECURSIVE StringsUpTo(_, _)
StringsUpTo(chars, n) ==
    IF n = 0 THEN {<<>>}
    ELSE LET shorter == StringsUpTo(chars, n - 1) IN
         shorter \cup {Append(t, c) : t \in shorter, c \in chars}

Passwords == StringsUpTo(PwChars, MaxPwLen)

NoString == <<>>
StorageNames == {NoString, <<"s">>, <<"g", "-", "s">>}
Bins == {<<"duplicacy">>}
ArgLists == {<<<<"list">>, <<"-storage">>, <<"test">>>>, <<<<"backup">>, <<"-t">>, <<"a", SQ, "b">>>>}

\* nil map, a map with one storage, and a map that has the empty name as a
\* key and an empty credential for the storage
NilMap == [isNil |-> TRUE, m |-> <<>>]
PasswordMaps ==
    {NilMap,
     [isNil |-> FALSE, m |-> (<<"s">> :> <<"b", DOLLAR>>)],
     [isNil |-> FALSE, m |-> (NoString :> <<"e">>) @@ (<<"s">> :> NoString)]}

\* repository path and cache directory
WorkDirs == {<<NoString, NoString>>, <<<<"/repo">>, NoString>>, <<<<"/repo">>, <<"/cache">>>>}

\* remote host and remote password
Remotes == {<<NoString, NoString>>, <<<<"root@host">>, NoString>>,
            <<<<"root@host">>, <<"p", SQ, "w">>>>}

ComposeOptions ==
    {[DryRun |-> FALSE, Verbose |-> FALSE, DockerContainer |-> dc, SSHHost |-> rm[1],
      SSHPassword |-> rm[2], DuplicacyPath |-> NoString, RepoPath |-> wd[1], CacheDir |-> wd[2],
      StoragePassword |-> pw, StoragePasswords |-> pm, GCDToken |-> tok] :
        dc \in {NoString, <<"C">>}, rm \in Remotes, wd \in WorkDirs,
        pw \in Passwords, pm \in PasswordMaps,
        tok \in {NoString, <<"/tok">>}}

DiscoverOptions ==
    {[DryRun |-> dr, Verbose |-> FALSE, DockerContainer |-> dc, SSHHost |-> rm[1],
      SSHPassword |-> rm[2], DuplicacyPath |-> dp, RepoPath |-> NoString, CacheDir |-> NoString,
      StoragePassword |-> NoString, StoragePasswords |-> NilMap, GCDToken |-> NoString] :
        dr \in BOOLEAN, dc \in {NoString, <<"C">>}, rm \in Remotes,
        dp \in {NoString, <<"/custom/duplicacy">>}}

\* ----------------------------------------------------------------- state
VARIABLES
    opts,            \* Executor.opts
    call,            \* the arguments of the calls and the last operation applied
    result,          \* the value it returned
    discoveredPath,  \* Executor.discoveredPath
    discoverErr,     \* Executor.discoverErr ("" is nil)
    onceDone,        \* Executor.discoverOnce: its done flag
    onceM,           \* Executor.discoverOnce: the holder of its mutex, 0 if free
    pc,              \* position of each caller of discoverDuplicacyPath
    ncalls,          \* calls begun by each caller
    launched,        \* command lines of the external processes started so far
    procOut,         \* exit status and stdout of the finished discovery process
    bodyRuns,        \* number of times the function passed to Do was entered
    bodyOpts,        \* the options the function passed to Do has read (once bodyRuns > 0)
    returned,        \* the (path, error) pairs returned so far, in order
    proc,            \* the external process of the running command: what became of it
    cfg,             \* run command: the loaded configuration and the dry-run flag
    rpc,             \* run command: its position
    trace,           \* run command: the invocations issued and finished, in order
    allErrors,       \* run command: allErrors
    failedBackups,   \* run command: failedBackups
    files,           \* the stats files in the container: path -> date -> DayStats
    tracker          \* the issue tracker, and the call of the notifier in progress

composeVars == <<call, result>>
discoverVars == <<discoveredPath, discoverErr, onceDone, onceM, pc, ncalls, launched,
                  procOut, bodyRuns, bodyOpts, returned>>
outsideVars == <<files, tracker>>
runnerVars == <<proc, outsideVars>>
runAllVars == <<cfg, rpc, trace, allErrors, failedBackups>>
vars == <<opts, call, result, discoveredPath, discoverErr, onceDone, onceM, pc, ncalls,
          launched, procOut, bodyRuns, bodyOpts, returned, proc, cfg, rpc, trace, allErrors,
          failedBackups, files, tracker>>

Callers == {1, 2}
NoProc == [exit |-> -1, out |-> NoString]

\* the arguments of a call of buildCommandWithStorage or getStoragePassword
Inputs == [bin : Bins, args : ArgLists, storageName : StorageNames]

\* New(opts)
New(o) ==
    /\ opts = o
    /\ result = NoString
    /\ discoveredPath = NoString
    /\ discoverErr = ""
    /\ onceDone = FALSE
    /\ onceM = 0
    /\ pc = [c \in Callers |-> "idle"]
    /\ ncalls = [c \in Callers |-> 0]
    /\ launched = <<>>
    /\ procOut = NoProc
    /\ bodyRuns = 0
    /\ bodyOpts = o
    /\ returned = <<>>

\* a tracker without issues, and no call of the notifier
NoTracker ==
    [issues |-> <<>>, requests |-> <<>>, at |-> "idle", title |-> <<>>, body |-> <<>>,
     assignee |-> <<>>, err |-> [type |-> "nil", msg |-> <<>>], calls |-> 0]

\* no command is running and the run command has not been started
Idle ==
    /\ proc = NoProc
    /\ cfg = <<>>
    /\ rpc = [at |-> "none"]
    /\ trace = <<>>
    /\ allErrors = <<>>
    /\ failedBackups = <<>>
    /\ files = <<>>
    /\ tracker = NoTracker

\* ------------------------------------------------- composer state machine
Init ==
    /\ \E o \in ComposeOptions : New(o)
    /\ Idle
    /\ \E in \in Inputs : call = [op |-> "none", in |-> in]

BuildCommandWithStorage ==
    /\ call' = [call EXCEPT !.op = "buildCommandWithStorage"]
    /\ result' = buildCommandWithStorage(opts, call.in.bin, call.in.args, call.in.storageName)
    /\ UNCHANGED <<opts, runnerVars, runAllVars, discoverVars>>

GetStoragePassword ==
    /\ call' = [call EXCEPT !.op = "getStoragePassword"]
    /\ result' = getStoragePassword(opts, call.in.storageName)
    /\ UNCHANGED <<opts, runnerVars, runAllVars, discoverVars>>

Next == BuildCommandWithStorage \/ GetStoragePassword

Spec == Init /\ [][Next]_vars

\* ------------------------------------------------ vocabulary of the properties
Last(s) == s[Len(s)]

IndexOf(s, a) ==
    LET hits == {i \in 1..Len(s) : s[i] = a} IN
    IF hits = {} THEN 0 ELSE CHOOSE i \in hits : \A j \in hits : i <= j

IsPrefix(p, s) == Len(p) <= Len(s) /\ SubSeq(s, 1, Len(p)) = p

IsSuffix(p, s) == Len(p) <= Len(s) /\ SubSeq(s, Len(s) - Len(p) + 1, Len(s)) = p

Contains(sub, s) ==
    \E i \in 0..(Len(s) - Len(sub)) : SubSeq(s, i + 1, i + Len(sub)) = sub

Word(a) == <<a>>

Built == call.op = "buildCommandWithStorage"
HasRemote == opts.SSHHost # NoString
HasContainer == opts.DockerContainer # NoString
HasWorkDir == WorkDir(opts) # NoString
Credential == getStoragePassword(opts, call.in.storageName)
Base == call.in.bin \o <<SP>> \o Join(call.in.args, <<SP>>)

\* the command line handed to the remote shell (the last word of the ssh
\* command, outer being what the local shell makes of the composed line), or
\* the composed command itself when there is no remote host
RemoteLineOf(outer) ==
    IF ~HasRemote THEN result
    ELSE IF outer.ok /\ Len(outer.cmds) = 1 THEN Last(outer.cmds[1])
    ELSE <<"<unparsable>">>

DockerPrefix == <<"docker", SP, "exec", SP>> \o opts.DockerContainer \o <<SP>>
DockerShellPrefix == DockerPrefix \o <<"sh", SP, "-c", SP, SQ>>

\* the words the local shell passes to ssh (after sshpass -p <password>)
SSHWords(remoteLine) ==
    <<Word("ssh"), Word("-o"), Word("StrictHostKeyChecking=no"), Word("-o"),
      Word("LogLevel=ERROR"), opts.SSHHost, remoteLine>>

SSHPassWords == <<Word("sshpass"), Word("-p"), opts.SSHPassword>>

LayerMarkers == {"docker", "export", "cd", "duplicacy", "sh"}

NestedIn(outer, line) ==
    /\ HasRemote =>
          /\ outer.ok /\ Len(outer.cmds) = 1
          /\ outer.cmds[1][1] = (IF opts.SSHPassword # NoString
                                 THEN Word("sshpass") ELSE Word("ssh"))
          /\ \A i \in 1..(Len(outer.cmds[1]) - 1) :
                 \A j \in 1..Len(outer.cmds[1][i]) : outer.cmds[1][i][j] \notin LayerMarkers
    /\ ~HasRemote => IndexOf(result, "ssh") = 0 /\ IndexOf(result, "sshpass") = 0
    /\ HasContainer =>
          /\ IsPrefix(DockerPrefix, line)
          /\ \A m \in {"cd", "export"} :
                 IndexOf(line, m) > 0 =>
                     /\ IsPrefix(DockerShellPrefix, line)
                     /\ IndexOf(line, m) > Len(DockerShellPrefix)
                     /\ Last(line) = SQ
    /\ ~HasContainer => IndexOf(line, "docker") = 0
    /\ HasWorkDir <=> IndexOf(line, "cd") > 0
    /\ IndexOf(line, "duplicacy") > 0
    /\ IndexOf(line, "cd") < IndexOf(line, "duplicacy")
    /\ IndexOf(line, "export") > 0 =>
          /\ IndexOf(line, "export") < IndexOf(line, "duplicacy")
          /\ HasWorkDir => IndexOf(line, "export") < IndexOf(line, "cd")

\* C1: the layers nest in the order base command, cd, exports, container,
\* remote shell: with a remote host the local shell sees one ssh (or sshpass)
\* command whose last word holds everything else; a container wrapping starts
\* the remote line, and cd and the exports stand inside its quoted sh -c
\* argument, exports first, then cd, then the base command.
C1_NestingOrder ==
    Built => LET outer == IF HasRemote THEN ShellParse(result) ELSE ShInit
                 line == RemoteLineOf(outer)
             IN NestedIn(outer, line)

\* all five layers are present and the credential has a single quote in it
C1_Witness ==
    /\ Built /\ HasRemote /\ HasContainer /\ HasWorkDir
    /\ opts.SSHPassword # NoString
    /\ opts.GCDToken # NoString /\ call.in.storageName # NoString
    /\ IndexOf(Credential, SQ) > 0
    /\ IndexOf(result, "export") > 0

\* the command line before the remote wrapping
BeforeRemote ==
    buildCommandWithStorage([opts EXCEPT !.SSHHost = NoString], call.in.bin, call.in.args,
                            call.in.storageName)

\* C2: with a remote host, the local shell unquotes the last word of the ssh
\* command to exactly the command line before the remote wrapping, and the
\* word after sshpass -p to exactly the remote password; the quoted argument
\* is the last thing on the line.
C2_RemoteQuoting ==
    (Built /\ HasRemote) =>
        LET outer == ShellParse(result) IN
        /\ outer.ok /\ Len(outer.cmds) = 1
        /\ outer.cmds[1] = (IF opts.SSHPassword # NoString THEN SSHPassWords ELSE <<>>)
                            \o SSHWords(BeforeRemote)
        /\ Last(result) = SQ
        /\ IsPrefix(IF opts.SSHPassword # NoString THEN <<"sshpass", SP, "-p", SP, SQ>>
                    ELSE <<"ssh", SP>>, result)

\* a remote password and a command that both contain single quotes
C2_Witness ==
    /\ Built /\ HasRemote
    /\ IndexOf(opts.SSHPassword, SQ) > 0
    /\ IndexOf(BeforeRemote, SQ) > 0
    /\ Contains(<<SQ, DQ, SQ, DQ, SQ>>, result)

\* the value a shell assigns for the double-quoted text after the atom var
\* in line, and whether " && " follows the closing quote
ExportedValue(line, var) ==
    LET i == IndexOf(line, var) IN
    IF i = 0 THEN [ok |-> FALSE, value |-> <<>>, rest |-> <<>>]
    ELSE DoubleQuoted(SubSeq(line, i + 1, Len(line)))

\* C3: in the export statements the escaped credential, read between its
\* double quotes by the rules of POSIX double quoting, is exactly the
\* credential, for every credential over backslash, double quote, dollar,
\* backtick, single quote and an ordinary character.
C3_CredentialRoundTrip ==
    (Built /\ HasContainer /\ Credential # NoString) =>
        LET line == RemoteLineOf(IF HasRemote THEN ShellParse(result) ELSE ShInit)
            generic == ExportedValue(line, "DUPLICACY_PASSWORD=")
            specific == ExportedValue(line, "_PASSWORD=")
        IN /\ generic.ok /\ generic.value = Credential
           /\ IsPrefix(<<SP, "&&", SP>>, generic.rest)
           /\ call.in.storageName # NoString =>
                  /\ specific.ok /\ specific.value = Credential
                  /\ IsPrefix(<<SP, "&&", SP>>, specific.rest)

\* a credential made of a backslash followed by a double quote, exported
\* under both names
C3_Witness ==
    /\ Built /\ HasContainer /\ ~HasRemote
    /\ Credential = <<BS, DQ>>
    /\ call.in.storageName # NoString
    /\ Contains(<<DQ, BS, BS, BS, DQ, DQ>>, result)

\* the commands that finally run: the local shell runs ssh, the remote shell
\* runs docker exec, docker runs sh -c (or the program itself, without a shell)
InnermostCommands(outer) ==
    LET remote == IF ~HasRemote THEN outer
                  ELSE IF outer.ok /\ Len(outer.cmds) = 1
                          /\ Len(outer.cmds[1]) >= 7
                       THEN ShellParse(Last(outer.cmds[1]))
                  ELSE [ok |-> FALSE, cmds |-> <<>>]
    IN
    IF ~HasContainer \/ ~remote.ok THEN remote
    ELSE IF Len(remote.cmds) # 1 \/ Len(remote.cmds[1]) < 4 THEN [ok |-> FALSE, cmds |-> <<>>]
    ELSE LET w == remote.cmds[1] IN
         IF w[4] = Word("sh") /\ Len(w) = 6 /\ w[5] = Word("-c") THEN ShellParse(w[6])
         ELSE [ok |-> TRUE, cmds |-> <<SubSeq(w, 4, Len(w))>>]

\* C4: interpreted by a shell at every layer boundary, the composed command
\* runs the binary with exactly the original arguments, every export of the
\* generic credential variable assigns exactly the credential, and sshpass
\* gets exactly the remote password.
C4_LayeredRoundTrip ==
    Built =>
        LET outer == ShellParse(result)
            final == InnermostCommands(outer)
        IN /\ outer.ok /\ final.ok /\ final.cmds # <<>>
           /\ Last(final.cmds) = <<call.in.bin>> \o call.in.args
           /\ \A k \in 1..Len(final.cmds) :
                  (Len(final.cmds[k]) = 2 /\ final.cmds[k][1] = Word("export")
                   /\ IsPrefix(<<"DUPLICACY_PASSWORD=">>, final.cmds[k][2]))
                      => final.cmds[k][2] = <<"DUPLICACY_PASSWORD=">> \o Credential
           /\ (HasRemote /\ opts.SSHPassword # NoString) => outer.cmds[1][3] = opts.SSHPassword

GenericExport == <<"export", SP, "DUPLICACY_PASSWORD=", DQ>> \o EscapePassword(Credential) \o <<DQ>>

SpecificExport ==
    <<"export", SP, "DUPLICACY_">> \o EnvName(call.in.storageName) \o <<"_PASSWORD=", DQ>>
        \o EscapePassword(Credential) \o <<DQ>>

CdCommand ==
    (IF HasWorkDir THEN <<"cd", SP>> \o WorkDir(opts) \o <<SP, "&&", SP>> ELSE <<>>) \o Base

\* C5: in every execution context, a non-empty effective credential is
\* exported under the generic name, the exports stand right before the
\* cd-prefixed command, and the entity-specific export is there exactly when
\* the entity name is not empty.
C5_CredentialExports ==
    (Built /\ Credential # NoString) =>
        LET line == RemoteLineOf(IF HasRemote THEN ShellParse(result) ELSE ShInit) IN
        /\ Contains(GenericExport, line)
        /\ IF call.in.storageName # NoString
           THEN Contains(GenericExport \o <<SP, "&&", SP>> \o SpecificExport
                           \o <<SP, "&&", SP>> \o CdCommand, line)
           ELSE /\ Contains(GenericExport \o <<SP, "&&", SP>> \o CdCommand, line)
                /\ IndexOf(line, "_PASSWORD=") = 0

TokenExport ==
    <<"export", SP, "DUPLICACY_">> \o EnvName(call.in.storageName) \o <<"_GCD_TOKEN=", DQ>>
        \o opts.GCDToken \o <<DQ>>

\* C6: the token export is in the command whenever a token path is configured
\* and the entity name is not empty, and stands ahead of the credential
\* exports; otherwise there is no token export.
C6_TokenExport ==
    Built =>
        LET line == RemoteLineOf(IF HasRemote THEN ShellParse(result) ELSE ShInit) IN
        IF opts.GCDToken # NoString /\ call.in.storageName # NoString
        THEN /\ Contains(TokenExport, line)
             /\ IndexOf(line, "DUPLICACY_PASSWORD=") > 0
                    => IndexOf(line, "_GCD_TOKEN=") < IndexOf(line, "DUPLICACY_PASSWORD=")
        ELSE IndexOf(line, "_GCD_TOKEN=") = 0

\* C7: with a container, the command handed to the container host is
\* docker exec <container> sh -c '<command>' when there is a working
\* directory or an export in it, and exactly docker exec <container> <base
\* command> otherwise.
C7_ContainerWrap ==
    (Built /\ HasContainer) =>
        LET line == RemoteLineOf(IF HasRemote THEN ShellParse(result) ELSE ShInit) IN
        IF HasWorkDir \/ IndexOf(line, "export") > 0
        THEN /\ IsPrefix(DockerShellPrefix, line)
             /\ IsSuffix(CdCommand \o <<SQ>>, line)
             /\ (Credential # NoString) <=> (IndexOf(line, "DUPLICACY_PASSWORD=") > 0)
        ELSE line = DockerPrefix \o Base

\* container only, no working directory, no credential: no inner shell
C7_Witness ==
    /\ Built /\ HasContainer /\ ~HasRemote /\ ~HasWorkDir /\ Credential = NoString
    /\ call.in.args = <<<<"list">>, <<"-storage">>, <<"test">>>>
    /\ result = <<"docker", SP, "exec", SP, "C", SP, "duplicacy", SP, "list", SP, "-storage",
                  SP, "test">>

\* C8: getStoragePassword returns the entry of the per-entity map when the
\* name is not empty and is a key of the map, and the default credential for
\* an unknown name, the empty name and a nil map.
C8_GetStoragePassword ==
    call.op = "getStoragePassword" =>
        LET name == call.in.storageName
            known == ~opts.StoragePasswords.isNil /\ name \in DOMAIN opts.StoragePasswords.m
        IN /\ (name # NoString /\ known) => result = opts.StoragePasswords.m[name]
           /\ name = NoString => result = opts.StoragePassword
           /\ ~known => result = opts.StoragePassword

\* the empty name is looked up in a map that has the empty name as a key
C8_Witness ==
    /\ call.op = "getStoragePassword"
    /\ call.in.storageName = NoString
    /\ ~opts.StoragePasswords.isNil
    /\ NoString \in DOMAIN opts.StoragePasswords.m
    /\ opts.StoragePasswords.m[NoString] # opts.StoragePassword
    /\ result = opts.StoragePassword

\* ------------------------------------------------ binary locator (discovery)
\* what the external discovery process can do: exit non-zero, or exit 0 with
\* the output of ls ... | head -1: nothing, one path and a newline, or a path
\* that ends in a blank
DiscoveryExits == {0, 1}
DiscoveryOutputs ==
    {NoString,
     <<"/config/bin/duplicacy_linux_x64_3.2.5", NL>>,
     <<"/config/bin/duplicacy_linux_x64_", SP, NL>>}

ErrDiscoverFailed == "failed to discover duplicacy path"
ErrNotFound == "duplicacy CLI not found in /config/bin/"

SearchScript == <<"ls", SP, "/config/bin/duplicacy_linux_x64_*", SP, "2>/dev/null", SP, "|",
                  SP, "head", SP, "-1">>

\* the discovery command line
SearchCommand(o) ==
    LET docker == <<"docker", SP, "exec", SP>> \o o.DockerContainer
                     \o <<SP, "sh", SP, "-c", SP, SQ>> \o SearchScript \o <<SQ>>
        ssh == <<"ssh", SP, "-o", SP, "StrictHostKeyChecking=no", SP, "-o", SP,
                 "LogLevel=ERROR", SP>> \o o.SSHHost \o <<SP, SQ>>
                 \o ReplaceAll(docker, SQ, <<SQ, DQ, SQ, DQ, SQ>>) \o <<SQ>>
    IN IF o.SSHHost = NoString THEN docker
       ELSE IF o.SSHPassword = NoString THEN ssh
       ELSE <<"sshpass", SP, "-p", SP, SQ>>
               \o ReplaceAll(o.SSHPassword, SQ, <<SQ, DQ, SQ, DQ, SQ>>) \o <<SQ, SP>> \o ssh

\* variant: the dry-run rule tried before the explicit path
DiscoverRuleDryRunFirst(o) ==
    IF o.DryRun THEN "dryrun"
    ELSE IF o.DuplicacyPath # NoString THEN "explicit"
    ELSE IF o.DockerContainer = NoString THEN "nodocker"
    ELSE "search"

\* the rule the function passed to Do applies
DiscoverRule(o) ==
    IF o.DuplicacyPath # NoString THEN "explicit"
    ELSE IF o.DockerContainer = NoString THEN "nodocker"
    ELSE IF o.DryRun THEN "dryrun"
    ELSE "search"

\* a caller enters discoverDuplicacyPath
Call(c) ==
    /\ pc[c] = "idle"
    /\ ncalls[c] < MaxCalls
    /\ pc' = [pc EXCEPT ![c] = "fast"]
    /\ ncalls' = [ncalls EXCEPT ![c] = @ + 1]
    /\ UNCHANGED <<opts, runnerVars, runAllVars, composeVars, discoveredPath, discoverErr, onceDone, onceM, launched,
                   procOut, bodyRuns, bodyOpts, returned>>

\* Once.Do: the done flag is read without the mutex
OnceFast(c) ==
    /\ pc[c] = "fast"
    /\ pc' = [pc EXCEPT ![c] = IF onceDone THEN "return" ELSE "lock"]
    /\ UNCHANGED <<opts, runnerVars, runAllVars, composeVars, discoveredPath, discoverErr, onceDone, onceM, ncalls,
                   launched, procOut, bodyRuns, bodyOpts, returned>>

\* Once.Do: the mutex is taken and the done flag read again
OnceLock(c) ==
    /\ pc[c] = "lock"
    /\ onceM = 0
    /\ onceM' = c
    /\ pc' = [pc EXCEPT ![c] = IF onceDone THEN "skip" ELSE "body"]
    /\ UNCHANGED <<opts, runnerVars, runAllVars, composeVars, discoveredPath, discoverErr, onceDone, ncalls, launched,
                   procOut, bodyRuns, bodyOpts, returned>>

\* variant: the search is made in dry-run mode too
DiscoverBodyIgnoringDryRun(c) ==
    /\ pc[c] = "body"
    /\ bodyRuns' = bodyRuns + 1
    /\ bodyOpts' = opts
    /\ LET rule == IF DiscoverRule(opts) = "dryrun" THEN "search" ELSE DiscoverRule(opts) IN
       /\ discoveredPath' = IF rule = "explicit" THEN opts.DuplicacyPath
                            ELSE IF rule \in {"nodocker", "dryrun"} THEN <<"duplicacy">>
                            ELSE discoveredPath
       /\ launched' = IF rule = "search" THEN Append(launched, SearchCommand(opts))
                      ELSE launched
       /\ pc' = [pc EXCEPT ![c] = IF rule = "search" THEN "wait" ELSE "finish"]
    /\ UNCHANGED <<opts, runnerVars, runAllVars, composeVars, discoverErr, onceDone, onceM, ncalls, procOut, returned>>

\* the function passed to Do, up to its return or to the start of the process
DiscoverBody(c) ==
    /\ pc[c] = "body"
    /\ bodyRuns' = bodyRuns + 1
    /\ bodyOpts' = opts
    /\ LET rule == DiscoverRule(opts) IN
       /\ discoveredPath' = IF rule = "explicit" THEN opts.DuplicacyPath
                            ELSE IF rule \in {"nodocker", "dryrun"} THEN <<"duplicacy">>
                            ELSE discoveredPath
       /\ launched' = IF rule = "search" THEN Append(launched, SearchCommand(opts))
                      ELSE launched
       /\ pc' = [pc EXCEPT ![c] = IF rule = "search" THEN "wait" ELSE "finish"]
    /\ UNCHANGED <<opts, runnerVars, runAllVars, composeVars, discoverErr, onceDone, onceM, ncalls, procOut, returned>>

\* cmd.Run returns: the discovery process has exited
DiscoverExit(c) ==
    /\ pc[c] = "wait"
    /\ \E exit \in DiscoveryExits, out \in DiscoveryOutputs :
          /\ procOut' = [exit |-> exit, out |-> out]
          /\ IF exit # 0
             THEN discoverErr' = ErrDiscoverFailed /\ UNCHANGED discoveredPath
             ELSE IF TrimSpace(out) = NoString
             THEN discoverErr' = ErrNotFound /\ UNCHANGED discoveredPath
             ELSE discoveredPath' = TrimSpace(out) /\ UNCHANGED discoverErr
    /\ pc' = [pc EXCEPT ![c] = "finish"]
    /\ UNCHANGED <<opts, runnerVars, runAllVars, composeVars, onceDone, onceM, ncalls, launched, bodyRuns, bodyOpts,
                   returned>>

\* variant: only a successful discovery is remembered
OnceFinishSuccessOnly(c) ==
    /\ pc[c] = "finish"
    /\ onceDone' = (discoverErr = "")
    /\ pc' = [pc EXCEPT ![c] = "skip"]
    /\ UNCHANGED <<opts, runnerVars, runAllVars, composeVars, discoveredPath, discoverErr, onceM, ncalls, launched,
                   procOut, bodyRuns, bodyOpts, returned>>

\* Once.Do: the function has returned, the done flag is set
OnceFinish(c) ==
    /\ pc[c] = "finish"
    /\ onceDone' = TRUE
    /\ pc' = [pc EXCEPT ![c] = "skip"]
    /\ UNCHANGED <<opts, runnerVars, runAllVars, composeVars, discoveredPath, discoverErr, onceM, ncalls, launched,
                   procOut, bodyRuns, bodyOpts, returned>>

\* Once.Do: the mutex is released
OnceUnlock(c) ==
    /\ pc[c] = "skip"
    /\ onceM = c
    /\ onceM' = 0
    /\ pc' = [pc EXCEPT ![c] = "return"]
    /\ UNCHANGED <<opts, runnerVars, runAllVars, composeVars, discoveredPath, discoverErr, onceDone, ncalls, launched,
                   procOut, bodyRuns, bodyOpts, returned>>

\* return e.discoveredPath, e.discoverErr
Return(c) ==
    /\ pc[c] = "return"
    /\ returned' = Append(returned, [path |-> discoveredPath, err |-> discoverErr])
    /\ pc' = [pc EXCEPT ![c] = "idle"]
    /\ UNCHANGED <<opts, runnerVars, runAllVars, composeVars, discoveredPath, discoverErr, onceDone, onceM, ncalls,
                   launched, procOut, bodyRuns, bodyOpts>>

\* the options are assigned to while no caller is about to read them
ModifyOpts ==
    /\ \A c \in Callers : pc[c] # "body"
    /\ \E o \in DiscoverOptions : o # opts /\ opts' = o
    /\ UNCHANGED <<runnerVars, runAllVars, composeVars, discoverVars>>

InitDiscover ==
    /\ \E o \in DiscoverOptions : New(o)
    /\ Idle
    /\ call = [op |-> "none",
               in |-> [bin |-> <<"duplicacy">>, args |-> <<>>, storageName |-> NoString]]

NextDiscover ==
    \/ \E c \in Callers :
          \/ Call(c)
          \/ OnceFast(c)
          \/ OnceLock(c)
          \/ DiscoverBody(c)
          \/ DiscoverExit(c)
          \/ OnceFinish(c)
          \/ OnceUnlock(c)
          \/ Return(c)
    \/ ModifyOpts

SpecDiscover == InitDiscover /\ [][NextDiscover]_vars

\* C9: over any interleaving of callers and any change of the options, the
\* function passed to Do is entered at most once, at most one discovery
\* process is started, a recorded failure is never followed by another
\* attempt, and every call returns the outcome the first one returned.
C9_DiscoverOnce ==
    /\ bodyRuns <= 1
    /\ Len(launched) <= 1
    /\ \A i \in 1..Len(returned) : returned[i] = returned[1]
    /\ \A i \in 1..Len(returned) :
           returned[i] = [path |-> discoveredPath, err |-> discoverErr]

\* a failed discovery was returned once, the options were changed since, and
\* a caller that raced with the discovery is about to return the same failure
C9_Witness ==
    /\ Len(returned) >= 1
    /\ returned[1].err # ""
    /\ opts # bodyOpts
    /\ \E c \in Callers : pc[c] = "skip" /\ onceDone

FirstLine(out) ==
    IF IndexOf(out, NL) = 0 THEN out ELSE SubSeq(out, 1, IndexOf(out, NL) - 1)

\* the words of the discovery command that the container host's shell runs
DockerSearchWords(o) ==
    <<Word("docker"), Word("exec"), o.DockerContainer, Word("sh"), Word("-c"), SearchScript>>

\* the discovery command runs in the container, through ssh (and sshpass)
\* when a remote host (and password) is set
RunsInContainer(o, cmdline) ==
    LET outer == ShellParse(cmdline) IN
    /\ outer.ok /\ Len(outer.cmds) = 1
    /\ IF o.SSHHost = NoString THEN outer.cmds[1] = DockerSearchWords(o)
       ELSE LET w == outer.cmds[1]
                k == IF o.SSHPassword # NoString THEN 3 ELSE 0
            IN /\ Len(w) = k + 7
               /\ k = 3 => SubSeq(w, 1, 3) = <<Word("sshpass"), Word("-p"), o.SSHPassword>>
               /\ w[k + 1] = Word("ssh") /\ w[k + 6] = o.SSHHost
               /\ ShellParse(w[k + 7]) = [ok |-> TRUE, cmds |-> <<DockerSearchWords(o)>>]

\* C10: once discovery is done, the path is the explicit path if one is
\* configured; else the bare name when there is no container; else the
\* bare name in dry-run mode, and in these three cases no process was
\* started; else exactly one discovery process was started in the container
\* and, when it exited with 0 and a non-blank first line, the path is that
\* line trimmed.
C10_ResolutionOrder ==
    onceDone =>
        LET o == bodyOpts IN
        IF o.DuplicacyPath # NoString
        THEN discoveredPath = o.DuplicacyPath /\ discoverErr = "" /\ launched = <<>>
        ELSE IF o.DockerContainer = NoString \/ o.DryRun
        THEN discoveredPath = <<"duplicacy">> /\ discoverErr = "" /\ launched = <<>>
        ELSE /\ Len(launched) = 1
             /\ RunsInContainer(o, launched[1])
             /\ (procOut.exit = 0 /\ TrimSpace(FirstLine(procOut.out)) # NoString)
                    => /\ discoveredPath = TrimSpace(FirstLine(procOut.out))
                       /\ discoverErr = ""

\* a discovery through sshpass and ssh that found a path ending in a blank
C10_Witness ==
    /\ onceDone
    /\ bodyOpts.DuplicacyPath = NoString /\ ~bodyOpts.DryRun
    /\ bodyOpts.SSHPassword # NoString
    /\ Len(launched) = 1
    /\ procOut = [exit |-> 0, out |-> <<"/config/bin/duplicacy_linux_x64_", SP, NL>>]
    /\ discoveredPath = <<"/config/bin/duplicacy_linux_x64_">>
    /\ \E i \in 1..Len(returned) : returned[i].path = discoveredPath

\* ---------------------------------------------------------- process runner
DigitChar(d) == <<"0", "1", "2", "3", "4", "5", "6", "7", "8", "9">>[d + 1]

RECURSIVE DigitsOf(_)
DigitsOf(n) == IF n < 10 THEN <<DigitChar(n)>> ELSE Append(DigitsOf(n \div 10), DigitChar(n % 10))

\* the verb %d of fmt
FormatInt(n) == IF n < 0 THEN <<"-">> \o DigitsOf(0 - n) ELSE DigitsOf(n)

\* error values: nil, errors.New / fmt.Errorf without %w, fmt.Errorf with %w,
\* and the error of os/exec for a program that could not be started
NilError == [type |-> "nil", msg |-> <<>>]
Errorf(msg) == [type |-> "*errors.errorString", msg |-> msg]
WrapErrorf(msg) == [type |-> "*fmt.wrapError", msg |-> msg]
ErrBashNotFound ==
    [type |-> "*exec.Error",
     msg |-> <<"exec:", SP, DQ, "bash", DQ, ":", SP, "executable", SP, "file", SP, "not", SP,
               "found", SP, "in", SP, "$PATH">>]

ExitMessage(n) == <<"command", SP, "exited", SP, "with", SP, "code", SP>> \o FormatInt(n)

\* what can become of bash -c <command line> once bash has started: the
\* requested program runs and exits with a status, or is killed by a signal
\* (ExitCode() is -1), or cannot be found by the shell that was to start it
\* (that shell exits with 127); found tells whether the program was started
ProcessOutcomes ==
    {[state |-> "exited", found |-> TRUE, exit |-> 0, stdout |-> <<"report", NL>>, stderr |-> NoString],
     [state |-> "exited", found |-> TRUE, exit |-> 0, stdout |-> NoString, stderr |-> NoString],
     [state |-> "exited", found |-> TRUE, exit |-> 1, stdout |-> <<"partial", NL>>,
      stderr |-> <<"exit", SP, "code", SP, "1", "0", "0", NL>>],
     [state |-> "exited", found |-> TRUE, exit |-> 100, stdout |-> NoString, stderr |-> NoString],
     [state |-> "exited", found |-> TRUE, exit |-> -1, stdout |-> NoString, stderr |-> NoString],
     [state |-> "exited", found |-> FALSE, exit |-> 127, stdout |-> NoString,
      stderr |-> <<"command", SP, "not", SP, "found", NL>>]}

Running == [state |-> "running"]
FailedToStart == [state |-> "failed to start"]

\* what execute returns for the process p
executeResult(p) ==
    IF p.state = "failed to start" THEN [err |-> ErrBashNotFound]
    ELSE IF p.exit # 0 THEN [err |-> Errorf(ExitMessage(p.exit))]
    ELSE [err |-> NilError]

\* variant: the capture mode reports the exit status in words of its own
executeCaptureResultOwnFormat(p) ==
    IF p.state = "failed to start" THEN [out |-> NoString, err |-> ErrBashNotFound]
    ELSE IF p.exit # 0
    THEN [out |-> p.stdout,
          err |-> Errorf(<<"exit", SP, "status", SP>> \o FormatInt(p.exit) \o <<":", SP>> \o p.stderr)]
    ELSE [out |-> p.stdout, err |-> NilError]

\* what executeCapture returns for the process p
executeCaptureResult(p) ==
    IF p.state = "failed to start" THEN [out |-> NoString, err |-> ErrBashNotFound]
    ELSE IF p.exit # 0
    THEN [out |-> p.stdout, err |-> Errorf(ExitMessage(p.exit) \o <<":", SP>> \o p.stderr)]
    ELSE [out |-> p.stdout, err |-> NilError]

\* the options of the executors that run commands
RunOptions ==
    {[DryRun |-> dr, Verbose |-> FALSE, DockerContainer |-> dc, SSHHost |-> rm[1],
      SSHPassword |-> rm[2], DuplicacyPath |-> dp, RepoPath |-> wd, CacheDir |-> NoString,
      StoragePassword |-> <<"p", DOLLAR>>, StoragePasswords |-> NilMap, GCDToken |-> NoString] :
        dr \in BOOLEAN, dc \in {NoString, <<"C">>},
        rm \in {<<NoString, NoString>>, <<<<"root@host">>, <<"p", SQ, "w">>>>},
        dp \in {NoString, <<"/custom/duplicacy">>}, wd \in {NoString, <<"/repo">>}}

RunInputs == [bin : {NoString}, args : ArgLists, storageName : {NoString, <<"s">>}]

\* entry of RunDuplicacyWithStorage and RunDuplicacyCaptureWithStorage: the
\* call of discoverDuplicacyPath begins
EnterCall(op, storageName, args) ==
    /\ pc[1] = "idle"
    /\ call' = [op |-> op, in |-> call.in, storageName |-> storageName, args |-> args,
                at |-> "discover", cmdStr |-> NoString]
    /\ result' = NoString
    /\ proc' = NoProc
    /\ pc' = [pc EXCEPT ![1] = "fast"]
    /\ ncalls' = [ncalls EXCEPT ![1] = @ + 1]
    /\ UNCHANGED <<opts, discoveredPath, discoverErr, onceDone, onceM, launched,
                   procOut, bodyRuns, bodyOpts, returned, outsideVars>>

\* a call made on its own, outside the run command
RunEnter(op, storageName, args) == EnterCall(op, storageName, args) /\ UNCHANGED runAllVars

CanCall == call.at \in {"idle", "done"} /\ ncalls[1] < MaxCalls

RunDuplicacy ==
    CanCall /\ RunEnter("RunDuplicacy", NoString, call.in.args)

RunDuplicacyWithStorage ==
    CanCall /\ RunEnter("RunDuplicacyWithStorage", call.in.storageName, call.in.args)

RunDuplicacyCaptureWithStorage ==
    CanCall /\ RunEnter("RunDuplicacyCaptureWithStorage", call.in.storageName, call.in.args)

Capturing == call.op = "RunDuplicacyCaptureWithStorage"

\* what the two functions return without running anything
Returns(err) == IF Capturing THEN [out |-> NoString, err |-> err] ELSE [err |-> err]

ErrCannotFind(err) == WrapErrorf(<<"cannot", SP, "find", SP, "duplicacy", ":", SP, err>>)

\* variant: after a failed discovery the bare name is used
RunAfterDiscoverFallback ==
    /\ call.at = "discover"
    /\ pc[1] = "idle"
    /\ LET r == returned[Len(returned)]
           bin == IF r.err # "" THEN <<"duplicacy">> ELSE r.path
           cmdStr == buildCommandWithStorage(opts, bin, call.args, call.storageName)
       IN IF opts.DryRun
          THEN /\ result' = Returns(NilError)
               /\ call' = [call EXCEPT !.at = "done", !.cmdStr = cmdStr]
          ELSE /\ call' = [call EXCEPT !.at = "execute", !.cmdStr = cmdStr]
               /\ UNCHANGED result
    /\ UNCHANGED <<opts, runnerVars, runAllVars, discoverVars>>

\* discoverDuplicacyPath has returned: the error is wrapped and returned, or
\* the command is composed and, in dry-run mode, only reported
RunAfterDiscover ==
    /\ call.at = "discover"
    /\ pc[1] = "idle"
    /\ LET r == returned[Len(returned)]
           cmdStr == buildCommandWithStorage(opts, r.path, call.args, call.storageName)
       IN IF r.err # ""
          THEN /\ result' = Returns(ErrCannotFind(r.err))
               /\ call' = [call EXCEPT !.at = "done"]
          ELSE IF opts.DryRun
          THEN /\ result' = Returns(NilError)
               /\ call' = [call EXCEPT !.at = "done", !.cmdStr = cmdStr]
          ELSE /\ call' = [call EXCEPT !.at = "execute", !.cmdStr = cmdStr]
               /\ UNCHANGED result
    /\ UNCHANGED <<opts, runnerVars, runAllVars, discoverVars>>

\* exec.Command("bash", "-c", cmdStr) and the start of cmd.Run: bash is
\* started, or it is not to be found
Execute ==
    /\ call.at = "execute"
    /\ \E started \in BOOLEAN :
          IF started
          THEN /\ launched' = Append(launched, call.cmdStr)
               /\ proc' = Running
               /\ call' = [call EXCEPT !.at = "wait"]
               /\ UNCHANGED result
          ELSE /\ proc' = FailedToStart
               /\ result' = IF Capturing THEN executeCaptureResult(FailedToStart)
                            ELSE executeResult(FailedToStart)
               /\ call' = [call EXCEPT !.at = "done"]
               /\ UNCHANGED launched
    /\ UNCHANGED <<opts, runAllVars, discoveredPath, discoverErr, onceDone, onceM, pc, ncalls,
                   procOut, bodyRuns, bodyOpts, returned, outsideVars>>

\* cmd.Run returns: the process has ended in one of the given ways
ExitWith(outcomes) ==
    /\ call.at = "wait"
    /\ \E p \in outcomes :
          /\ proc' = p
          /\ result' = IF Capturing THEN executeCaptureResult(p) ELSE executeResult(p)
    /\ call' = [call EXCEPT !.at = "done"]
    /\ UNCHANGED <<opts, runAllVars, discoverVars, outsideVars>>

ExecuteExit == ExitWith(ProcessOutcomes)

InitRun ==
    /\ \E o \in RunOptions : New(o)
    /\ Idle
    /\ \E in \in RunInputs :
          call = [op |-> "none", in |-> in, storageName |-> NoString, args |-> <<>>,
                  at |-> "idle", cmdStr |-> NoString]

NextRun ==
    \/ RunDuplicacy
    \/ RunDuplicacyWithStorage
    \/ RunDuplicacyCaptureWithStorage
    \/ OnceFast(1)
    \/ OnceLock(1)
    \/ DiscoverBody(1)
    \/ DiscoverExit(1)
    \/ OnceFinish(1)
    \/ OnceUnlock(1)
    \/ Return(1)
    \/ RunAfterDiscover
    \/ Execute
    \/ ExecuteExit

SpecRun == InitRun /\ [][NextRun]_vars

\* the discovery process was started and has ended without a usable path
DiscoveryFailed == procOut # NoProc /\ (procOut.exit # 0 \/ TrimSpace(procOut.out) = NoString)

CannotFind == <<"cannot", SP, "find", SP, "duplicacy">>

\* C11: when the discovery process exits non-zero or prints nothing but
\* blanks, the locator holds an error and no path (no bare name instead),
\* every call returns that pair, and the two run functions return an error
\* that starts with the words cannot find duplicacy, with no output, no
\* composed command and no process besides the discovery itself.
C11_DiscoveryHardError ==
    DiscoveryFailed =>
        /\ discoverErr = (IF procOut.exit # 0 THEN ErrDiscoverFailed ELSE ErrNotFound)
        /\ discoveredPath = NoString
        /\ \A i \in 1..Len(returned) : returned[i] = [path |-> NoString, err |-> discoverErr]
        /\ launched = <<SearchCommand(opts)>>
        /\ proc = NoProc
        /\ call.cmdStr = NoString
        /\ call.at \in {"discover", "done"}
        /\ call.at = "done" =>
              /\ result.err.type # "nil"
              /\ IsPrefix(CannotFind, result.err.msg)
              /\ Capturing => result.out = NoString

\* the second capture call after a discovery that printed nothing usable
C11_Witness ==
    /\ call.at = "done" /\ Capturing
    /\ ncalls[1] = 2
    /\ procOut.exit = 0 /\ TrimSpace(procOut.out) = NoString
    /\ result = [out |-> NoString,
                 err |-> WrapErrorf(CannotFind \o <<":", SP, ErrNotFound>>)]

\* C12: in dry-run mode no process is ever started, neither for discovery
\* nor for the command, and every call returns nil (capture: the empty string
\* and nil), whatever the container, remote host, working directory,
\* explicit path and arguments are.
C12_DryRunLaunchesNothing ==
    opts.DryRun =>
        /\ launched = <<>>
        /\ procOut = NoProc /\ proc = NoProc
        /\ discoverErr = ""
        /\ call.at \in {"idle", "discover", "done"}
        /\ call.at = "done" =>
              result = (IF Capturing THEN [out |-> NoString, err |-> NilError]
                        ELSE [err |-> NilError])

\* a dry-run capture call through container and remote host has returned, the
\* command having been composed with the bare name
C12_Witness ==
    /\ opts.DryRun /\ call.at = "done" /\ Capturing
    /\ opts.DockerContainer # NoString /\ opts.SSHHost # NoString
    /\ opts.DuplicacyPath = NoString
    /\ Contains(<<"duplicacy", SP, "backup">>, call.cmdStr)
    /\ result = [out |-> NoString, err |-> NilError]

\* the decimal text of the exit codes of the modelled processes
CodeText(n) ==
    CASE n = 1 -> <<"1">> [] n = 100 -> <<"1", "0", "0">> [] n = 127 -> <<"1", "2", "7">>
      [] n = -1 -> <<"-", "1">> [] OTHER -> <<"?">>

CommandExitedWithCode == <<"command", SP, "exited", SP, "with", SP, "code", SP>>

\* C14: a process that ends with code n # 0 yields, in both modes, an error
\* whose message starts with command exited with code n (stream mode: is
\* exactly that; capture mode: followed by a colon and the standard error
\* text), so the message contains code n; code 0 yields nil; in stream mode
\* the message contains code 100 exactly when the code is 100.
C14_ExitCodeFormat ==
    (call.at = "done" /\ proc # NoProc /\ proc.state = "exited") =>
        IF proc.exit = 0 THEN result.err = NilError
        ELSE LET msg == result.err.msg
                 head == CommandExitedWithCode \o CodeText(proc.exit)
             IN /\ result.err.type # "nil"
                /\ Contains(<<"code", SP>> \o CodeText(proc.exit), msg)
                /\ msg = (IF Capturing THEN head \o <<":", SP>> \o proc.stderr ELSE head)
                /\ ~Capturing =>
                      (Contains(<<"code", SP, "1", "0", "0">>, msg) <=> proc.exit = 100)

\* a capture call whose process ended with code 100
C14_Witness ==
    /\ call.at = "done" /\ Capturing
    /\ proc # NoProc /\ proc.state = "exited" /\ proc.exit = 100
    /\ result.err.msg = <<"command", SP, "exited", SP, "with", SP, "code", SP, "1", "0", "0",
                          ":", SP>>

\* the requested program was not started: bash could not be started, or the
\* shell that was to start the program did not find it
NotLaunched == proc # NoProc /\ (proc.state = "failed to start" \/ (proc.state = "exited" /\ ~proc.found))

\* C15: when the requested program could not be started, the error returned
\* is not a command exited with code n error.
C15_LaunchFailureDistinct ==
    (call.at = "done" /\ NotLaunched) =>
        /\ result.err.type # "nil"
        /\ ~IsPrefix(CommandExitedWithCode, result.err.msg)

\* ----------------------------------------------------- size/number lexer
\* An int64 (and the float64 it is computed from) is written as a numeral:
\* the sequence of its groups of three decimal digits, most significant first
\* and without leading zero groups, as in 4,841,275,392 = <<4, 841, 275, 392>>.
\* The byte counts of a report exceed 2^31.
DigitChars == {"0", "1", "2", "3", "4", "5", "6", "7", "8", "9"}
DigitValue(c) == CHOOSE d \in 0..9 : DigitChar(d) = c

Zero == <<0>>
MaxInt64 == <<9, 223, 372, 36, 854, 775, 807>>

RECURSIVE StripZeros(_)
StripZeros(d) == IF Len(d) > 1 /\ d[1] = 0 THEN StripZeros(Tail(d)) ELSE d

DigitAt(chars, i) == IF i < 1 THEN 0 ELSE DigitValue(chars[i])

\* the group of three digits that ends at position last
GroupAt(chars, last) ==
    100 * DigitAt(chars, last - 2) + 10 * DigitAt(chars, last - 1) + DigitAt(chars, last)

GroupCount(n) == (n + 2) \div 3

\* the number written with the digit characters chars
Numeral(chars) ==
    StripZeros([j \in 1..GroupCount(Len(chars)) |->
                   GroupAt(chars, Len(chars) - 3 * (GroupCount(Len(chars)) - j))])

Front(d) == SubSeq(d, 1, Len(d) - 1)

\* a + b + carry
RECURSIVE AddCarry(_, _, _)
AddCarry(a, b, carry) ==
    IF a = <<>> /\ b = <<>> THEN (IF carry = 0 THEN <<>> ELSE <<carry>>)
    ELSE LET x == (IF a = <<>> THEN 0 ELSE a[Len(a)]) + (IF b = <<>> THEN 0 ELSE b[Len(b)]) + carry
         IN Append(AddCarry(IF a = <<>> THEN a ELSE Front(a), IF b = <<>> THEN b ELSE Front(b),
                            x \div 1000), x % 1000)

Add(a, b) == StripZeros(AddCarry(a, b, 0))

\* a * m + carry for a group m
RECURSIVE MulCarry(_, _, _)
MulCarry(a, m, carry) ==
    IF a = <<>> THEN (IF carry = 0 THEN <<>> ELSE <<carry>>)
    ELSE LET x == a[Len(a)] * m + carry IN
         Append(MulCarry(Front(a), m, x \div 1000), x % 1000)

\* a * b for numerals
RECURSIVE Product(_, _)
Product(a, b) ==
    IF b = <<>> THEN Zero
    ELSE Add(StripZeros(Append(Product(a, Front(b)), 0)),
             StripZeros(MulCarry(a, b[Len(b)], 0)))

LessEq(a, b) ==
    \/ Len(a) < Len(b)
    \/ /\ Len(a) = Len(b)
       /\ \/ a = b
          \/ \E i \in 1..Len(a) : a[i] < b[i] /\ \A j \in 1..(i - 1) : a[j] = b[j]

\* the error of strconv for text that is no number, and for a number out of range
ErrSyntax == [type |-> "*strconv.NumError", msg |-> <<"invalid syntax">>]
ErrRange == [type |-> "*strconv.NumError", msg |-> <<"value out of range">>]

\* strconv.ParseInt(s, 10, 64) for text without a sign
InRange(n) ==
    IF LessEq(n, MaxInt64) THEN [val |-> n, err |-> NilError] ELSE [val |-> MaxInt64, err |-> ErrRange]

ParseInt(s) ==
    IF s = <<>> \/ \E i \in 1..Len(s) : s[i] \notin DigitChars THEN [val |-> Zero, err |-> ErrSyntax]
    ELSE InRange(Numeral(s))

NumberOf(t) == IF t = <<>> THEN [val |-> Zero, err |-> NilError] ELSE ParseInt(t)

parseNumber(s) == NumberOf(ReplaceAll(TrimSpace(s), ",", <<>>))

\* variant: decimal multipliers
MultiplierDecimal(lastChar) ==
    CASE lastChar = "K" -> <<1, 0>>
      [] lastChar = "M" -> <<1, 0, 0>>
      [] lastChar = "G" -> <<1, 0, 0, 0>>
      [] lastChar = "T" -> <<1, 0, 0, 0, 0>>
      [] OTHER -> <<1>>

\* 1024, 1024 * 1024, 1024 * 1024 * 1024, 1024 * 1024 * 1024 * 1024, or 1
Multiplier(lastChar) ==
    CASE lastChar = "K" -> <<1, 24>>
      [] lastChar = "M" -> <<1, 48, 576>>
      [] lastChar = "G" -> <<1, 73, 741, 824>>
      [] lastChar = "T" -> <<1, 99, 511, 627, 776>>
      [] OTHER -> <<1>>

\* a float64 holds every whole number below 10^15 exactly; the product of such
\* a number and a power of two is exact as well
Float64Exact(d) == Len(d) <= 5

\* the value of a conversion whose result the model leaves open: a magnitude
\* that float64 rounds, or a product beyond int64
Inexact == <<"inexact">>

\* int64(val * float64(multiplier)) for the whole number val
Int64Of(val, bytes) ==
    IF Float64Exact(val) /\ LessEq(bytes, MaxInt64) THEN [val |-> bytes, err |-> NilError]
    ELSE [val |-> Inexact, err |-> NilError]

Scaled(val, multiplier) == Int64Of(val, Product(val, multiplier))

\* strconv.ParseFloat(u, 64) for text of digits, times the multiplier, as int64
ParseFloatTimes(u, multiplier) ==
    IF u = <<>> \/ \E i \in 1..Len(u) : u[i] \notin DigitChars
    THEN [val |-> Zero, err |-> WrapErrorf(<<"failed to parse size">>)]
    ELSE Scaled(Numeral(u), multiplier)

\* s without the suffix K, M, G or T
NumericPart(t) == IF t[Len(t)] \in {"K", "M", "G", "T"} THEN Front(t) ELSE t

\* parseSize once the blanks and the commas are gone
SizeOf(t) ==
    IF t = <<>> THEN [val |-> Zero, err |-> NilError]
    ELSE ParseFloatTimes(NumericPart(t), Multiplier(t[Len(t)]))

parseSize(s) == SizeOf(ReplaceAll(TrimSpace(s), ",", <<>>))

\* --------------------------------------------------- tabular report parser
\* A line is a sequence of atoms: blanks, the pipe, digits, the comma, the at
\* sign and the unit letters are atoms of one character, every other atom is
\* a word of letters.  The three regular expressions are matched as the
\* regexp package does (leftmost match, greedy repetitions); a position is an
\* index into the line, and 0 stands for no match.
PIPE == "|"

IsDigitOrComma(c) == c \in DigitChars \cup {","}
IsDigit(c) == c \in DigitChars
NonSpace(c) == ~IsSpace(c)
NotPipe(c) == c # PIPE

\* the least element of S, or default if there is none
FirstOr(S, default) == IF S = {} THEN default ELSE CHOOSE j \in S : \A k \in S : j <= k

\* the position after the longest run of atoms of a class that starts at i
SkipWhile(l, i, In(_)) == FirstOr({j \in i..Len(l) : ~In(l[j])}, Len(l) + 1)

\* \s*
Blanks(l, i) == IF i = 0 THEN 0 ELSE SkipWhile(l, i, IsSpace)

\* one atom
Lit(l, i, a) == IF i # 0 /\ i <= Len(l) /\ l[i] = a THEN i + 1 ELSE 0

\* a sequence of atoms
LitSeq(l, i, as) ==
    IF i # 0 /\ i + Len(as) - 1 <= Len(l) /\ SubSeq(l, i, i + Len(as) - 1) = as
    THEN i + Len(as) ELSE 0

\* a run from i to j that is not empty
NonEmpty(i, j) == IF j > i THEN j ELSE 0

\* [\d,]+
Count(l, i) == IF i = 0 THEN 0 ELSE NonEmpty(i, SkipWhile(l, i, IsDigitOrComma))

\* [KMGT]?
Suffix(l, j) == IF j # 0 /\ j <= Len(l) /\ l[j] \in {"K", "M", "G", "T"} THEN j + 1 ELSE j

\* [\d,]+[KMGT]?
Size(l, i) == Suffix(l, Count(l, i))

\* \d+
Number(l, i) == IF i = 0 THEN 0 ELSE NonEmpty(i, SkipWhile(l, i, IsDigit))

\* [^|]*\|
Column(l, i) == IF i = 0 THEN 0 ELSE Lit(l, SkipWhile(l, i, NotPipe), PIPE)

Token(l, i, j) == SubSeq(l, i, j - 1)

\* the elements of the three expressions; group marks a capturing group
Element(class, text, group) == [class |-> class, text |-> text, group |-> group]
Spaces == Element("blanks", <<>>, FALSE)
Atom(a) == Element("atoms", <<a>>, FALSE)
Atoms(as) == Element("atoms", as, FALSE)
Bar == Atom(PIPE)

\* the position after the element e matched at i; 0: no match
Advance(l, i, e) ==
    CASE e.class = "blanks" -> Blanks(l, i)
      [] e.class = "atoms" -> LitSeq(l, i, e.text)
      [] e.class = "count" -> Count(l, i)
      [] e.class = "size" -> Size(l, i)
      [] e.class = "number" -> Number(l, i)
      [] e.class = "column" -> Column(l, i)

\* the positions after each element of the expression es matched at i: each
\* element takes the longest run it can, none of them has to give way
Positions(l, i, es) ==
    LET pos[k \in 0..Len(es)] == IF k = 0 THEN i ELSE Advance(l, pos[k - 1], es[k]) IN pos

\* the indexes of the capturing groups of es
GroupIndexes(es) == SelectSeq([k \in 1..Len(es) |-> k], LAMBDA k : es[k].group)

GroupsAt(l, pos, last, groups) ==
    IF pos[last] = 0 THEN <<>>
    ELSE [n \in DOMAIN groups |-> Token(l, pos[groups[n] - 1], pos[groups[n]])]

\* the groups of the expression es matched at position i, or <<>>
MatchAt(l, i, es) == GroupsAt(l, Positions(l, i, es), Len(es), GroupIndexes(es))

TotalPrefix == <<"Total", SP, "chunk", SP, "size", SP, "is", SP>>

\* Total chunk size is ([\d,]+[KMGT]?) in ([\d,]+) chunks
TotalElements ==
    <<Atoms(TotalPrefix), Element("size", <<>>, TRUE), Atoms(<<SP, "in", SP>>),
      Element("count", <<>>, TRUE), Atoms(<<SP, "chunks">>)>>

TotalAt(l, p) == MatchAt(l, p, TotalElements)

\* the leftmost match
TotalFirst(l, hits) == IF hits = {} THEN <<>> ELSE TotalAt(l, FirstOr(hits, 0))

\* totalChunksRe.FindStringSubmatch(line): the two groups, or <<>> for nil
totalChunksRe(l) == TotalFirst(l, {p \in 1..Len(l) : TotalAt(l, p) # <<>>})

\* what follows the name in revisionRe: \s*\|\s*(\d+)\s*\|\s*@
RevisionRest ==
    <<Spaces, Bar, Spaces, Element("number", <<>>, TRUE), Spaces, Bar, Spaces, Atom("@")>>

\* what follows the name in allRowRe:
\* \s*\|\s*all\s*\|[^|]*\|[^|]*\|[^|]*\|\s*([\d,]+)\s*\|\s*([\d,]+[KMGT]?)\s*\|\s*([\d,]+)\s*\|\s*([\d,]+[KMGT]?)\s*\|
AllRowRest ==
    <<Spaces, Bar, Spaces, Atom("all"), Spaces, Bar,
      Element("column", <<>>, FALSE), Element("column", <<>>, FALSE), Element("column", <<>>, FALSE),
      Spaces, Element("count", <<>>, TRUE), Spaces, Bar,
      Spaces, Element("size", <<>>, TRUE), Spaces, Bar,
      Spaces, Element("count", <<>>, TRUE), Spaces, Bar,
      Spaces, Element("size", <<>>, TRUE), Spaces, Bar>>

\* the positions after a name that starts at start where rest matches
NameEnds(l, start, rest) ==
    {k \in (start + 1)..SkipWhile(l, start, NonSpace) : MatchAt(l, k, rest) # <<>>}

Max(S) == CHOOSE x \in S : \A y \in S : y <= x

NamedTo(l, start, k, rest) == <<Token(l, start, k)>> \o MatchAt(l, k, rest)

NamedAmong(l, start, ends, rest) ==
    IF ends = {} THEN <<>> ELSE NamedTo(l, start, Max(ends), rest)

NamedFrom(l, start, rest) == NamedAmong(l, start, NameEnds(l, start, rest), rest)

\* ^\s*(\S+) followed by rest: the name is the longest run of atoms that are
\* no blanks after which the rest of the expression matches
Named(l, rest) == NamedFrom(l, Blanks(l, 1), rest)

\* revisionRe.FindStringSubmatch(line): the groups, or <<>> for nil
revisionRe(l) == Named(l, RevisionRest)

\* allRowRe.FindStringSubmatch(line): the groups, or <<>> for nil
allRowRe(l) == Named(l, AllRowRest)

Newlines(text) == {i \in 1..Len(text) : text[i] = NL}

\* the position of the k-th line break; 0 and the position after the text
\* stand for the breaks around the text
Cut(text, k) ==
    IF k = 0 THEN 0
    ELSE IF k = Cardinality(Newlines(text)) + 1 THEN Len(text) + 1
    ELSE CHOOSE i \in Newlines(text) : Cardinality({j \in Newlines(text) : j < i}) = k - 1

\* strings.Split(text, "\n")
Split(text) ==
    [k \in 1..(Cardinality(Newlines(text)) + 1) |->
        SubSeq(text, Cut(text, k - 1) + 1, Cut(text, k) - 1)]

\* a map read with the zero value for a missing key
CountOf(counts, name) == IF name \in DOMAIN counts THEN counts[name] ELSE 0

EmptyMap == <<>>

NewDayStats ==
    [TotalSize |-> Zero, TotalChunks |-> Zero, PrunedChunks |-> 0, PrunedRevisions |-> 0,
     Status |-> "Checked", Repositories |-> EmptyMap]

\* variant: the first summary line wins
WithTotalsFirstWins(st, size, chunks) ==
    IF st.stats.TotalSize # Zero \/ st.stats.TotalChunks # Zero THEN st
    ELSE [st EXCEPT !.stats.TotalSize = IF size.err = NilError THEN size.val ELSE @,
                    !.stats.TotalChunks = IF chunks.err = NilError THEN chunks.val ELSE @]

\* a summary line: the totals are set from the values that were parsed
WithTotals(st, size, chunks) ==
    [st EXCEPT !.stats.TotalSize = IF size.err = NilError THEN size.val ELSE @,
               !.stats.TotalChunks = IF chunks.err = NilError THEN chunks.val ELSE @]

\* a revision line: revisionCounts[repoName]++
WithRevision(st, repoName) ==
    [st EXCEPT !.revisionCounts = (repoName :> (CountOf(st.revisionCounts, repoName) + 1)) @@ @]

\* variant: the first all row of an entity wins
WithRepositoryKeepFirst(st, repoName, chunks, totalSize, uniqueChunks, uniqueSize) ==
    [st EXCEPT !.stats.Repositories =
        @ @@ (repoName :> [TotalChunks |-> chunks.val, TotalSize |-> totalSize.val,
                           UniqueSize |-> uniqueSize.val,
                           Revisions |-> CountOf(st.revisionCounts, repoName)])]

\* an all row: the entity is stored, whatever the errors of the values
WithRepository(st, repoName, chunks, totalSize, uniqueChunks, uniqueSize) ==
    [st EXCEPT !.stats.Repositories =
        (repoName :> [TotalChunks |-> chunks.val, TotalSize |-> totalSize.val,
                      UniqueSize |-> uniqueSize.val,
                      Revisions |-> CountOf(st.revisionCounts, repoName)]) @@ @]

\* the three tests of the loop, in their order
Matched(st, total, revision, row) ==
    IF total # <<>> THEN WithTotals(st, parseSize(total[1]), parseNumber(total[2]))
    ELSE IF revision # <<>> THEN WithRevision(st, revision[1])
    ELSE IF row # <<>>
    THEN WithRepository(st, row[1], parseNumber(row[2]), parseSize(row[3]), parseNumber(row[4]),
                        parseSize(row[5]))
    ELSE st

\* the body of the loop over the lines: st holds stats and revisionCounts
ParseLine(st, line) == Matched(st, totalChunksRe(line), revisionRe(line), allRowRe(line))

RECURSIVE ParseLines(_, _)
ParseLines(st, lines) ==
    IF lines = <<>> THEN st ELSE ParseLines(ParseLine(st, Head(lines)), Tail(lines))

NilStats == [isNil |-> TRUE]
ErrNoRepositories == Errorf(<<"no repository statistics found in check output">>)

\* the statistics, or the error when no repository was found
Parsed(st) ==
    IF DOMAIN st.stats.Repositories = {} THEN [stats |-> NilStats, err |-> ErrNoRepositories]
    ELSE [stats |-> st.stats, err |-> NilError]

ParseCheckOutput(output) ==
    Parsed(ParseLines([stats |-> NewDayStats, revisionCounts |-> EmptyMap], Split(output)))

\* ------------------------------------------------ report and token inputs
MaxLines == 3

Cells(cols) == Join(cols, <<SP, PIPE, SP>>)

\* INFO SNAPSHOT_CHECK Total chunk size is 4,617M in 975 chunks
SummaryLine ==
    <<"INFO", SP, "SNAPSHOT_CHECK", SP>> \o TotalPrefix
        \o <<"4", ",", "6", "1", "7", "M", SP, "in", SP, "9", "7", "5", SP, "chunks">>

\* a summary line whose chunk count ends in a letter
SummaryBadCount ==
    TotalPrefix \o <<"1", "M", SP, "in", SP, "5", "0", "X", SP, "chunks">>

RevisionCells(name, rev) ==
    <<SP>> \o Cells(<<name, rev, <<"@", SP, "2025-12-27", SP, "01:03">>, <<"8", "4">>,
                      <<"6", ",", "5", "1", "9", "M">>, <<"2", "2", "3">>,
                      <<"1", ",", "1", "9", "4", "M">>, <<"3">>, <<"2", "0", "K">>>>)
        \o <<SP, PIPE>>

AllCells(name, third, chunks, bytes, uniq, uniqBytes) ==
    <<SP>> \o Cells(<<name, <<"all">>, third, <<>>, <<>>, chunks, bytes, uniq, uniqBytes, <<>>,
                      <<>>>>) \o <<SP, PIPE>>

RevisionX == RevisionCells(<<"x">>, <<"7", "6">>)
RevisionY == RevisionCells(<<"y">>, <<"7", "7">>)
AllRowX == AllCells(<<"x">>, <<>>, <<"2", "5">>, <<"1", "0", "0", "M">>, <<"2", "5">>,
                    <<"1", "0", "0", "M">>)
AllRowY == AllCells(<<"y">>, <<>>, <<"4">>, <<"3", "7", "7", "K">>, <<"4">>, <<"3", "7", "5", "K">>)

\* an all row whose chunk count ends in a letter
AllRowBadCount ==
    AllCells(<<"y">>, <<>>, <<"2", "X">>, <<"1", "K">>, <<"2">>, <<"1", "K">>)

\* an all row that holds the text of a summary line in its third column
AllRowInSummary ==
    AllCells(<<"x">>, TotalPrefix \o <<"1", "K", SP, "in", SP, "1", SP, "chunks">>,
             <<"1">>, <<"1", "K">>, <<"1">>, <<"1", "K">>)

\* a summary line whose size is a suffix without digits
SummaryBadSize ==
    TotalPrefix \o <<",", "M", SP, "in", SP, "5", SP, "chunks">>

\* an all row of x whose chunk count is beyond int64 and whose size is a
\* suffix without digits
AllRowBadTokens ==
    AllCells(<<"x">>, <<>>,
             <<"9", "9", "9", "9", "9", "9", "9", "9", "9", "9", "9", "9", "9", "9", "9", "9", "9",
               "9", "9", "9">>, <<",", "K">>, <<"7">>, <<"2", "K">>)

LogLine == <<"2025-12-29", SP, "INFO", SP, "STORAGE_SET", SP, "Storage", SP, "set", SP, "to", SP, "/test">>

HeaderLine ==
    <<SP>> \o Cells(<<<<"snap">>, <<"rev">>, <<>>, <<"files">>, <<"bytes">>, <<"chunks">>,
                      <<"bytes">>, <<"uniq">>, <<"bytes">>, <<"new">>, <<"bytes">>>>)
        \o <<SP, PIPE>>

ReportLines ==
    {SummaryLine, SummaryBadCount, SummaryBadSize, RevisionX, RevisionY, AllRowX, AllRowY,
     AllRowBadCount, AllRowBadTokens, AllRowInSummary, LogLine, HeaderLine}

RECURSIVE LineLists(_)
LineLists(n) ==
    IF n = 0 THEN {<<>>}
    ELSE LET shorter == LineLists(n - 1) IN
         shorter \cup {Append(ls, l) : ls \in shorter, l \in ReportLines}

\* the reports of up to MaxLines lines (the empty report is one empty line)
Reports == {Join(ls, <<NL>>) : ls \in LineLists(MaxLines)}

\* size and number tokens
Tokens ==
    {NoString, <<"1", "0", "0">>, <<"1", ",", "0", "0", "0">>, <<"1", "K">>, <<"1", "M">>, <<"1", "G">>,
     <<"1", "T">>, <<"4", ",", "6", "1", "7", "M">>, <<"8", ",", "8", "5", "3", "K">>,
     <<"9", "9", "1", ",", "4", "7", "7", "K">>, <<"9", "7", "5">>,
     <<"1", "0", ",", "0", "0", "0", ",", "0", "0", "0">>, <<SP, "1", "2", "G", SP>>,
     <<"2", ",", "0", "4", "8", "T">>, <<"1", "0", "0", "X">>, <<"abc">>, <<",">>, <<",", "M">>}

ParserInputs ==
    {[report |-> r, token |-> NoString] : r \in Reports}
        \cup {[report |-> NoString, token |-> t] : t \in Tokens}

\* ------------------------------------------------- parser state machine
\* the zero value of Options
ZeroOptions ==
    [DryRun |-> FALSE, Verbose |-> FALSE, DockerContainer |-> NoString, SSHHost |-> NoString,
     SSHPassword |-> NoString, DuplicacyPath |-> NoString, RepoPath |-> NoString,
     CacheDir |-> NoString, StoragePassword |-> NoString, StoragePasswords |-> NilMap,
     GCDToken |-> NoString]

\* the parser is a package of functions: no executor takes part
InitParse ==
    /\ New(ZeroOptions)
    /\ Idle
    /\ \E in \in ParserInputs : call = [op |-> "none", in |-> in]

ParseCheckOutputCall ==
    /\ call' = [call EXCEPT !.op = "ParseCheckOutput"]
    /\ result' = ParseCheckOutput(call.in.report)
    /\ UNCHANGED <<opts, runnerVars, runAllVars, discoverVars>>

ParseSizeCall ==
    /\ call' = [call EXCEPT !.op = "parseSize"]
    /\ result' = parseSize(call.in.token)
    /\ UNCHANGED <<opts, runnerVars, runAllVars, discoverVars>>

ParseNumberCall ==
    /\ call' = [call EXCEPT !.op = "parseNumber"]
    /\ result' = parseNumber(call.in.token)
    /\ UNCHANGED <<opts, runnerVars, runAllVars, discoverVars>>

NextParse == ParseCheckOutputCall \/ ParseSizeCall \/ ParseNumberCall

SpecParse == InitParse /\ [][NextParse]_vars

\* ------------------------------------------------------ parser: claims
WasParsed == call.op = "ParseCheckOutput"

\* the lines of the report that was parsed
ReportRows == LET lines == Split(call.in.report) IN {lines[k] : k \in DOMAIN lines}

\* C16: ParseCheckOutput returns the error "no repository statistics found"
\* and no statistics exactly when no line of the report matches the pattern
\* of the all row, whatever else the report holds; a result without error
\* holds at least one entity and the status "Checked".
C16_ErrorIffNoAllRow ==
    WasParsed =>
        /\ (result.err = ErrNoRepositories /\ result.stats = NilStats)
               <=> (\A l \in ReportRows : allRowRe(l) = <<>>)
        /\ result.err = NilError =>
               /\ DOMAIN result.stats.Repositories # {}
               /\ result.stats.Status = "Checked"

\* the number of revision lines of the whole report that carry the name
RevisionLines(name) ==
    LET lines == Split(call.in.report) IN
    Cardinality({k \in DOMAIN lines : revisionRe(lines[k]) # <<>> /\ revisionRe(lines[k])[1] = name})

\* C17: the Revisions value of every entity of the result is the number of
\* revision lines with that entity's name in the whole report, whether they
\* stand before or after the entity's all row; 0 when there is none.
C17_RevisionsCountWholeReport ==
    (WasParsed /\ result.err = NilError) =>
        \A name \in DOMAIN result.stats.Repositories :
            result.stats.Repositories[name].Revisions = RevisionLines(name)

RECURSIVE Pow1024(_)
Pow1024(k) == IF k = 0 THEN <<1>> ELSE Product(Pow1024(k - 1), <<1, 24>>)

SuffixPower(c) ==
    CASE c = "K" -> 1 [] c = "M" -> 2 [] c = "G" -> 3 [] c = "T" -> 4 [] OTHER -> 0

\* a token of digits and commas with at least one digit
IsMagnitude(t) ==
    /\ \E i \in 1..Len(t) : t[i] \in DigitChars
    /\ \A i \in 1..Len(t) : t[i] \in DigitChars \cup {","}

MagnitudeOf(t) == Numeral(SelectSeq(t, LAMBDA c : c \in DigitChars))

\* a magnitude with an optional suffix K, M, G or T, in the range where the
\* arithmetic of float64 and int64 is exact
IsSize(t) ==
    /\ t # <<>>
    /\ IsMagnitude(IF SuffixPower(t[Len(t)]) > 0 THEN Front(t) ELSE t)
    /\ Len(MagnitudeOf(t)) <= 5
    /\ LessEq(Product(MagnitudeOf(t), Pow1024(SuffixPower(t[Len(t)]))), MaxInt64)

\* C18: parseSize strips the commas and returns the magnitude times 1024^k
\* for the suffix K, M, G, T (k = 1, 2, 3, 4) and the plain magnitude
\* without suffix, so 4,617M is 4617*1024*1024 and 8,853K is 8853*1024;
\* parseNumber strips the commas and returns the integer; both return 0
\* without error for the empty string.
C18_SizeAndNumberValues ==
    LET t == call.in.token IN
    /\ (call.op = "parseSize" /\ IsSize(t)) =>
           result = [val |-> Product(MagnitudeOf(t), Pow1024(SuffixPower(t[Len(t)]))),
                     err |-> NilError]
    /\ (call.op = "parseSize" /\ t = <<"4", ",", "6", "1", "7", "M">>) =>
           result.val = <<4, 841, 275, 392>>
    /\ (call.op = "parseSize" /\ t = <<"8", ",", "8", "5", "3", "K">>) =>
           result.val = <<9, 65, 472>>
    /\ (call.op = "parseNumber" /\ IsMagnitude(t) /\ LessEq(MagnitudeOf(t), MaxInt64)) =>
           result = [val |-> MagnitudeOf(t), err |-> NilError]
    /\ (call.op \in {"parseSize", "parseNumber"} /\ t = <<>>) =>
           result = [val |-> Zero, err |-> NilError]

C18_Witness ==
    /\ call.op = "parseSize"
    /\ call.in.token = <<"2", ",", "0", "4", "8", "T">>
    /\ result = [val |-> <<2, 251, 799, 813, 685, 248>>, err |-> NilError]

\* the lines whose chunk count carries a trailing letter
BadCountLines == {SummaryBadCount, AllRowBadCount}

\* C19: when the chunk count of a summary line or of an all row carries an
\* unrecognized trailing letter, parsing the report returns an error.
C19_BadIntegerSurfacesError ==
    (WasParsed /\ ReportRows \cap BadCountLines # {}) => result.err # NilError

\* the lines of the report, in order
ReportSeq == Split(call.in.report)

\* the lines the summary pattern matches
SummaryRows == {k \in DOMAIN ReportSeq : totalChunksRe(ReportSeq[k]) # <<>>}

\* the lines the all row pattern matches, the lines aside that also match
\* the summary pattern (see C16)
AllRows ==
    {k \in DOMAIN ReportSeq : allRowRe(ReportSeq[k]) # <<>> /\ totalChunksRe(ReportSeq[k]) = <<>>}

AllRowNames == {allRowRe(ReportSeq[k])[1] : k \in AllRows}

\* the groups of the last all row of an entity, of the last summary line
LastAllRow(name) == allRowRe(ReportSeq[Max({k \in AllRows : allRowRe(ReportSeq[k])[1] = name})])
LastSummary == totalChunksRe(ReportSeq[Max(SummaryRows)])

Converts(value) == value.err = NilError

ZeroUnless(value) == IF Converts(value) THEN value.val ELSE Zero

\* C23: a token that a line pattern matched and that does not convert makes
\* its field of the result 0, in summary lines and in all rows; the other
\* fields of the line hold their values and the parse does not fail.
C23_FailedTokenIsZero ==
    WasParsed =>
        /\ AllRows # {} => result.err = NilError
        /\ (result.err = NilError /\ SummaryRows # {}) =>
              /\ result.stats.TotalSize = ZeroUnless(parseSize(LastSummary[1]))
              /\ result.stats.TotalChunks = ZeroUnless(parseNumber(LastSummary[2]))
        /\ result.err = NilError =>
              \A name \in AllRowNames :
                  LET row == LastAllRow(name)
                      entity == result.stats.Repositories[name] IN
                  /\ entity.TotalChunks = ZeroUnless(parseNumber(row[2]))
                  /\ entity.TotalSize = ZeroUnless(parseSize(row[3]))
                  /\ entity.UniqueSize = ZeroUnless(parseSize(row[5]))

\* ---------------------------------------------------------- configuration
\* RetentionConfig
ZeroRetention == [Daily |-> 0, Weekly |-> 0, Monthly |-> 0, Days |-> 0, Weeks |-> 0]
DefaultRetention == [ZeroRetention EXCEPT !.Daily = 7, !.Weekly = 4]

\* strings.Fields
RECURSIVE Fields(_)
Fields(s) ==
    IF s = <<>> THEN <<>>
    ELSE IF IsSpace(Head(s)) THEN Fields(Tail(s))
    ELSE LET n == CHOOSE n \in 1..Len(s) :
                     /\ \A i \in 1..n : ~IsSpace(s[i])
                     /\ n = Len(s) \/ IsSpace(s[n + 1])
         IN <<SubSeq(s, 1, n)>> \o Fields(SubSeq(s, n + 1, Len(s)))

Keep(n, m) == <<"-keep", SP>> \o FormatInt(n) \o <<":">> \o FormatInt(m)

OrDefault(n, default) == IF n = 0 THEN default ELSE n

\* the day boundaries of the counts
dailyEnd(r) == OrDefault(r.Daily, 7)
weeklyEnd(r) == dailyEnd(r) + (OrDefault(r.Weekly, 4) * 7)
monthlyEnd(r) == weeklyEnd(r) + (r.Monthly * 30)

allFlag(includeAll) == IF includeAll THEN <<SP, "-a">> ELSE <<>>

toPruneOptions(r, includeAll) ==
    IF r.Days > 0 \/ r.Weeks > 0
    THEN Keep(0, OrDefault(r.Weeks, 180)) \o <<SP>> \o Keep(7, OrDefault(r.Days, 14)) \o <<SP>>
             \o Keep(1, 1) \o allFlag(includeAll)
    ELSE IF r.Monthly > 0
    THEN Keep(0, monthlyEnd(r)) \o <<SP>> \o Keep(30, weeklyEnd(r)) \o <<SP>>
             \o Keep(7, dailyEnd(r)) \o <<SP>> \o Keep(1, 1) \o allFlag(includeAll)
    ELSE Keep(0, weeklyEnd(r)) \o <<SP>> \o Keep(7, dailyEnd(r)) \o <<SP>> \o Keep(1, 1)
             \o allFlag(includeAll)

ToPruneOptions(r) == toPruneOptions(r, TRUE)

\* variant: the options for one repository keep the flag -a
ToPruneOptionsKeepAll(r) == toPruneOptions(r, TRUE)

ToPruneOptionsWithoutAll(r) == toPruneOptions(r, FALSE)

\* the defaults of one backup
BackupDefaults(b) ==
    IF b.Retention.Days = 0 /\ b.Retention.Weeks = 0
    THEN [b EXCEPT !.Retention.Daily = OrDefault(@, 7), !.Retention.Weekly = OrDefault(@, 4),
                   !.Threads = OrDefault(@, 1)]
    ELSE [b EXCEPT !.Threads = OrDefault(@, 1)]

\* Config.applyDefaults
applyDefaults(c) ==
    [c EXCEPT !.Connection.GCDToken = IF @ = NoString THEN <<"/config/gcd-token.json">> ELSE @,
              !.Backups = [i \in DOMAIN c.Backups |-> BackupDefaults(c.Backups[i])]]

\* the error of Validate for backup i (counted from 1)
BadBackup(c, i) ==
    IF c.Backups[i].Name = NoString
    THEN Errorf(<<"backup[">> \o FormatInt(i - 1) \o <<"]:", SP, "name is required">>)
    ELSE Errorf(<<"backup[">> \o FormatInt(i - 1) \o <<"]", SP, "(">> \o c.Backups[i].Name
                    \o <<"):", SP, "at least one destination is required">>)

FirstBad(c, bad) == IF bad = {} THEN NilError ELSE BadBackup(c, FirstOr(bad, 0))

\* Config.Validate
Validate(c) ==
    IF c.Backups = <<>> THEN Errorf(<<"no backups defined">>)
    ELSE FirstBad(c, {i \in DOMAIN c.Backups :
                         c.Backups[i].Name = NoString \/ c.Backups[i].Destinations = <<>>})

\* append the elements of list that are not yet in seen, in order
RECURSIVE AppendNew(_, _)
AppendNew(seen, list) ==
    IF list = <<>> THEN seen
    ELSE AppendNew(IF \E i \in DOMAIN seen : seen[i] = Head(list) THEN seen
                   ELSE Append(seen, Head(list)), Tail(list))

RECURSIVE Concat(_)
Concat(lists) == IF lists = <<>> THEN <<>> ELSE Head(lists) \o Concat(Tail(lists))

\* Config.AllStorages
AllStorages(c) ==
    AppendNew(AppendNew(<<>>, Concat([i \in DOMAIN c.Backups |-> c.Backups[i].Destinations])),
              c.Maintenance)

\* Config.GetStorageRetention: the retention and whether it is defined
GetStorageRetention(c, storage) ==
    IF storage \in DOMAIN c.Storages
    THEN [retention |-> c.Storages[storage].Retention, ok |-> TRUE]
    ELSE [retention |-> ZeroRetention, ok |-> FALSE]

FirstNamed(c, named) ==
    IF named = {} THEN DefaultRetention ELSE c.Backups[FirstOr(named, 0)].Retention

\* Config.GetBackupRetention
GetBackupRetention(c, backupName) ==
    FirstNamed(c, {i \in DOMAIN c.Backups : c.Backups[i].Name = backupName})

NamesOf(backups) == [i \in DOMAIN backups |-> backups[i].Name]

\* Config.BackupsForStorage
BackupsForStorage(c, storage) ==
    NamesOf(SelectSeq(c.Backups,
                      LAMBDA b : \E d \in DOMAIN b.Destinations : b.Destinations[d] = storage))

\* ------------------------------------------------------------ run command
\* the values of SSH_PASSWORD and DUPLICACY_PASSWORD in the environment
sshPassword == NoString
storagePassword == <<"p">>

\* variant: the executors are never told of dry-run mode
ExecutorOptionsLive(c, cacheDir) ==
    [DryRun |-> FALSE, Verbose |-> c.verbose, DockerContainer |-> c.Connection.Container,
     SSHHost |-> c.Connection.Host, SSHPassword |-> sshPassword, DuplicacyPath |-> NoString,
     RepoPath |-> c.repoPath, CacheDir |-> cacheDir, StoragePassword |-> storagePassword,
     StoragePasswords |-> NilMap, GCDToken |-> c.Connection.GCDToken]

\* the options runAllBackups, runBackup and runCheckCmd give their executors
\* (runAllBackups gives no RepoPath)
ExecutorOptions(c, cacheDir) ==
    [DryRun |-> c.dryRun, Verbose |-> c.verbose, DockerContainer |-> c.Connection.Container,
     SSHHost |-> c.Connection.Host, SSHPassword |-> sshPassword, DuplicacyPath |-> NoString,
     RepoPath |-> c.repoPath, CacheDir |-> cacheDir, StoragePassword |-> storagePassword,
     StoragePasswords |-> NilMap, GCDToken |-> c.Connection.GCDToken]

\* cacheDir of a backup: its cache directory, else its path
CacheDirOf(b) == IF b.CacheDir = NoString THEN b.Path ELSE b.CacheDir

maintenanceCacheDir(c) == IF Len(c.Backups) > 0 THEN CacheDirOf(c.Backups[1]) ELSE NoString

\* one step of the plan of a run; the checks of the run command and of the
\* check command capture their output
Step(kind, backup, storage, label, args) ==
    [kind |-> kind, backup |-> backup, storage |-> storage, label |-> label, args |-> args,
     cacheDir |-> NoString, capture |-> (kind = "check")]

\* executor.New with the cache directory of a backup or of the maintenance
NewStep(kind, backup, cacheDir) ==
    [Step(kind, backup, NoString, NoString, <<>>) EXCEPT !.cacheDir = cacheDir]

\* phase 1, one backup: executor.New, a backup per destination, backupFailed
BackupSteps(b) ==
    <<NewStep("newBackup", b.Name, CacheDirOf(b))>>
        \o [d \in DOMAIN b.Destinations |->
               Step("backup", b.Name, b.Destinations[d],
                    b.Name \o <<SP, "->", SP>> \o b.Destinations[d],
                    <<<<"backup">>, <<"-storage">>, b.Destinations[d]>>
                        \o (IF b.Threads > 1 THEN <<<<"-threads">>, FormatInt(b.Threads)>>
                            ELSE <<>>))]
        \o <<Step("endBackup", b.Name, NoString, NoString, <<>>)>>

PruneArgs(storage) == <<<<"prune">>, <<"-storage">>, storage>>

\* the prune of all repositories of a storage
PruneAll(storage, retention) ==
    <<Step("prune", NoString, storage, <<"prune", SP>> \o storage,
           PruneArgs(storage) \o Fields(ToPruneOptions(retention)))>>

\* the prune of one repository of a storage
PruneOne(c, storage, backupName) ==
    Step("prune", backupName, storage, <<"prune", SP>> \o storage \o <<"/">> \o backupName,
         PruneArgs(storage) \o <<<<"-id">>, backupName>>
             \o Fields(ToPruneOptionsWithoutAll(GetBackupRetention(c, backupName))))

PruneWith(c, storage, own, backups) ==
    IF own.ok THEN PruneAll(storage, own.retention)
    ELSE IF Len(backups) = 0 THEN PruneAll(storage, DefaultRetention)
    ELSE [k \in DOMAIN backups |-> PruneOne(c, storage, backups[k])]

\* phase 2, one storage: the prune invocations of the storage
PruneSteps(c, storage) ==
    PruneWith(c, storage, GetStorageRetention(c, storage), BackupsForStorage(c, storage))

\* phase 3, one storage: the check of the storage
CheckStep(storage) ==
    Step("check", NoString, storage, <<"check", SP>> \o storage,
         <<<<"check">>, <<"-tabular">>, <<"-storage">>, storage>>)

Phase1(c) == Concat([b \in DOMAIN c.Backups |-> BackupSteps(c.Backups[b])])
Maintenance(c) == <<NewStep("newMaintenance", NoString, maintenanceCacheDir(c))>>
Phase2(c, allStorages) == Concat([i \in DOMAIN allStorages |-> PruneSteps(c, allStorages[i])])
Phase3(allStorages) == [i \in DOMAIN allStorages |-> CheckStep(allStorages[i])]

PhasesCheckFirst(c, allStorages) ==
    Phase1(c) \o Maintenance(c) \o Phase3(allStorages) \o Phase2(c, allStorages)

Phases(c, allStorages) ==
    Phase1(c) \o Maintenance(c) \o Phase2(c, allStorages) \o Phase3(allStorages)

\* variant: the storages are checked before they are pruned
PlanCheckBeforePrune(c) == PhasesCheckFirst(c, AllStorages(c))

\* the loops of runAllBackups unrolled: the steps of a run, in order
Plan(c) == Phases(c, AllStorages(c))

\* ------------------------------------------- backup and check commands
\* runBackup: a backup per storage
BackupTo(c) ==
    [i \in DOMAIN c.storages |->
        Step("backup", NoString, c.storages[i],
             <<"backup to", SP>> \o c.storages[i] \o <<SP, "failed">>,
             <<<<"backup">>, <<"-storage">>, c.storages[i]>> \o Fields(c.backupOptions))]

\* runBackup: with --check, a check per storage, its output not captured
CheckAfterBackup(c) ==
    IF c.runCheck
    THEN [i \in DOMAIN c.storages |->
             [Step("check", NoString, c.storages[i],
                   <<"check on", SP>> \o c.storages[i] \o <<SP, "failed">>,
                   <<<<"check">>, <<"-storage">>, c.storages[i]>>) EXCEPT !.capture = FALSE]]
    ELSE <<>>

\* runBackup: with --prune, a prune per storage
PruneAfterBackup(c) ==
    IF c.runPrune
    THEN [i \in DOMAIN c.storages |->
             Step("prune", NoString, c.storages[i],
                  <<"prune on", SP>> \o c.storages[i] \o <<SP, "failed">>,
                  PruneArgs(c.storages[i]) \o Fields(c.pruneOptions))]
    ELSE <<>>

\* the test len(allErrors) == 0 before the checks and before the prunes
Gate == <<Step("gate", NoString, NoString, NoString, <<>>)>>

\* variant: the storages are pruned before they are checked
BackupPlanPruneFirst(c) ==
    <<NewStep("new", NoString, c.cacheDir)>> \o BackupTo(c) \o Gate \o PruneAfterBackup(c)
        \o Gate \o CheckAfterBackup(c)

\* runBackup: the steps of the command, in order
BackupPlan(c) ==
    <<NewStep("new", NoString, c.cacheDir)>> \o BackupTo(c) \o Gate \o CheckAfterBackup(c)
        \o Gate \o PruneAfterBackup(c)

\* runCheckCmd: the steps of the command, in order
CheckPlan(c) ==
    <<NewStep("new", NoString, c.cacheDir)>>
        \o [i \in DOMAIN c.storages |->
               Step("check", NoString, c.storages[i],
                    <<"check on", SP>> \o c.storages[i] \o <<SP, "failed">>,
                    <<<<"check">>, <<"-tabular">>, <<"-storage">>, c.storages[i]>>)]

\* the steps of the command that is run
StepsOf(c) ==
    CASE c.command = "backup" -> BackupPlan(c)
      [] c.command = "check" -> CheckPlan(c)
      [] OTHER -> Plan(c)

StepIs(plan, kinds) == rpc.i <= Len(plan) /\ plan[rpc.i].kind \in kinds

\* the step the command is at, of the steps it began with
Current == rpc.plan[rpc.i]
AtStep(kinds) == rpc.at = "step" /\ StepIs(rpc.plan, kinds)
NextStep == [rpc EXCEPT !.at = "step", !.i = @ + 1]

\* a check report, the report of a check that lists no repository, no output,
\* and a failure
CheckReport == Join(<<SummaryLine, RevisionX, AllRowX>>, <<NL>>) \o <<NL>>
RunProcessOutcomes ==
    {[state |-> "exited", found |-> TRUE, exit |-> 0, stdout |-> CheckReport, stderr |-> NoString],
     [state |-> "exited", found |-> TRUE, exit |-> 0, stdout |-> LogLine \o <<NL>>, stderr |-> NoString],
     [state |-> "exited", found |-> TRUE, exit |-> 0, stdout |-> NoString, stderr |-> NoString],
     [state |-> "exited", found |-> TRUE, exit |-> 1, stdout |-> LogLine \o <<NL>>,
      stderr |-> <<"storage", SP, "unreachable", NL>>]}

\* executor.New in the course of a run: a fresh executor replaces the one in
\* use; the processes started so far stay started
NewExecutor(o) ==
    /\ opts' = o
    /\ discoveredPath' = NoString
    /\ discoverErr' = ""
    /\ onceDone' = FALSE
    /\ onceM' = 0
    /\ pc' = [c \in Callers |-> "idle"]
    /\ ncalls' = [c \in Callers |-> 0]
    /\ procOut' = NoProc
    /\ bodyRuns' = 0
    /\ bodyOpts' = o
    /\ returned' = <<>>
    /\ UNCHANGED launched

Event(ev, step) ==
    [ev |-> ev, kind |-> step.kind, storage |-> step.storage, backup |-> step.backup,
     args |-> step.args]

\* stats.NewWriter when a container is configured (check command: and
\* --update-stats is given), else nil; runBackup has no writer
statsWriter(c) ==
    IF c.Connection.Container # NoString
           /\ (c.command = "run" \/ (c.command = "check" /\ c.updateStats))
    THEN [isNil |-> FALSE, SSHHost |-> c.Connection.Host, SSHPassword |-> sshPassword,
          DockerContainer |-> c.Connection.Container, StatsPath |-> <<"/config/stats/storages">>,
          DryRun |-> c.dryRun, Verbose |-> c.verbose]
    ELSE [isNil |-> TRUE]

\* docker exec <container> sh -c '<shellCmd>'
DockerCommand(w, shellCmd) ==
    <<"docker", SP, "exec", SP>> \o w.DockerContainer \o <<SP, "sh", SP, "-c", SP, SQ>>
        \o shellCmd \o <<SQ>>

\* ssh ... <host> '<dockerCmd>', with sshpass if there is a password
RemoteCommand(w, dockerCmd) ==
    (IF w.SSHPassword = NoString THEN <<>>
     ELSE <<"sshpass", SP, "-p", SP, SQ>> \o ReplaceAll(w.SSHPassword, SQ, <<SQ, DQ, SQ, DQ, SQ>>)
              \o <<SQ, SP>>)
        \o <<"ssh", SP, "-o", SP, "StrictHostKeyChecking=no", SP, "-o", SP, "LogLevel=ERROR", SP>>
        \o w.SSHHost \o <<SP, SQ>> \o ReplaceAll(dockerCmd, SQ, <<SQ, DQ, SQ, DQ, SQ>>) \o <<SQ>>

\* Writer.buildDockerCommand
buildDockerCommand(w, shellCmd) ==
    IF w.SSHHost = NoString THEN DockerCommand(w, shellCmd)
    ELSE RemoteCommand(w, DockerCommand(w, shellCmd))

statsFile(w, storage) == w.StatsPath \o <<"/">> \o storage \o <<".stats">>

\* the command line of Writer.readStatsFile
ReadStatsCommand(w, storage) ==
    buildDockerCommand(w, <<"cat", SP>> \o statsFile(w, storage)
                              \o <<SP, "2>/dev/null", SP, "||", SP, "echo", SP, SQ, "{}", SQ>>)

\* the command line of Writer.writeStatsFile; the JSON text is not modelled
WriteStatsCommand(w, storage) ==
    buildDockerCommand(w, <<"cat", SP, ">", SP>> \o statsFile(w, storage)
                              \o <<SP, "<<", SP, SQ, "STATSEOF", SQ, NL, "<json>", NL, "STATSEOF">>)

\* the configurations of the runs and the flags --dry-run and --verbose
BackupConfig(name, dests, threads, retention) ==
    [Name |-> name, Path |-> <<"/mnt/">> \o name, CacheDir |-> NoString, Destinations |-> dests,
     Retention |-> retention, Threads |-> threads]

\* no notification is configured; a tracker is configured (the token is
\* the value of GetToken)
NoForgejo == [URL |-> NoString, Repo |-> NoString, Token |-> NoString, Assignee |-> NoString]
Forgejo ==
    [URL |-> <<"https://git.example.com">>, Repo |-> <<"owner/repo">>, Token |-> <<"t">>,
     Assignee |-> <<"admin">>]

ConfigOf(container, host, backups, storages, maintenance) ==
    applyDefaults([Connection |-> [Host |-> host, Container |-> container, GCDToken |-> NoString],
                   Backups |-> backups, Storages |-> storages, Maintenance |-> maintenance,
                   Notifications |-> [Forgejo |-> NoForgejo]])

\* one backup to one storage, in a container
SingleConfig ==
    [ConfigOf(<<"C">>, NoString, <<BackupConfig(<<"a">>, <<<<"s">>>>, 0, ZeroRetention)>>,
              EmptyMap, <<>>) EXCEPT !.Notifications.Forgejo = Forgejo]

\* one backup to two storages, one of them with a retention of its own, and
\* a storage that is only maintained, on a remote host
SpreadConfig ==
    ConfigOf(NoString, <<"root@host">>,
             <<BackupConfig(<<"a">>, <<<<"s">>, <<"g">>>>, 4, ZeroRetention)>>,
             (<<"s">> :> [Retention |-> [ZeroRetention EXCEPT !.Monthly = 2]]), <<<<"b">>>>)

\* two backups to the same storage, in a container
SharedConfig ==
    ConfigOf(<<"C">>, NoString,
             <<BackupConfig(<<"a">>, <<<<"s">>>>, 0, ZeroRetention),
               BackupConfig(<<"x">>, <<<<"s">>>>, 0, [ZeroRetention EXCEPT !.Days = 30])>>,
             EmptyMap, <<>>)

\* a backup without destination
InvalidConfig ==
    ConfigOf(<<"C">>, NoString, <<BackupConfig(<<"a">>, <<>>, 0, ZeroRetention)>>, EmptyMap, <<>>)

RunConfigs ==
    {c @@ [command |-> "run", repoPath |-> NoString, dryRun |-> dr, verbose |-> FALSE] :
        c \in {SingleConfig, SpreadConfig, SharedConfig, InvalidConfig}, dr \in BOOLEAN}

\* the state in which a command begins, the tracker apart
InitProgram ==
    /\ New(ZeroOptions)
    /\ proc = NoProc
    /\ call = [op |-> "none",
               in |-> [bin |-> NoString, args |-> <<>>, storageName |-> NoString],
               storageName |-> NoString, args |-> <<>>, at |-> "idle", cmdStr |-> NoString]
    /\ rpc = [at |-> "start", i |-> 0, backupFailed |-> FALSE, err |-> NilError,
              dayStats |-> NilStats, existing |-> EmptyMap, warnings |-> <<>>, plan |-> <<>>]
    /\ trace = <<>>
    /\ allErrors = <<>>
    /\ failedBackups = <<>>

\* the state in which a command begins: the tracker has no open issue
InitCommand == InitProgram /\ tracker = NoTracker

InitRunAll ==
    /\ InitCommand
    /\ cfg \in RunConfigs
    /\ files = <<>>

\* the error a command returns before it runs anything: Config.Validate in
\* runAllBackups, the required flags in runBackup and runCheckCmd
Invalid(c, invalid) ==
    IF invalid = NilError THEN NilError
    ELSE WrapErrorf(<<"invalid config:", SP>> \o invalid.msg)

StartError(c) ==
    CASE c.command = "backup" ->
             IF c.repository = NoString THEN Errorf(<<"--repository is required">>)
             ELSE IF c.storages = <<>> THEN Errorf(<<"at least one --storage is required">>)
             ELSE NilError
      [] c.command = "check" ->
             IF c.storages = <<>> THEN Errorf(<<"at least one --storage is required">>)
             ELSE NilError
      [] OTHER -> Invalid(c, Validate(c))

Started(err) ==
    IF err # NilError THEN [rpc EXCEPT !.at = "returned", !.err = err]
    ELSE [rpc EXCEPT !.at = "step", !.i = 1, !.plan = StepsOf(cfg)]

\* the configuration or the flags are validated
RunStart ==
    /\ rpc.at = "start"
    /\ rpc' = Started(StartError(cfg))
    /\ UNCHANGED <<opts, composeVars, discoverVars, runnerVars, cfg, trace, allErrors,
                   failedBackups>>

NewFor(step) ==
    /\ NewExecutor(ExecutorOptions(cfg, step.cacheDir))
    /\ rpc' = [rpc EXCEPT !.i = @ + 1,
                          !.backupFailed = IF step.kind = "newBackup" THEN FALSE ELSE @]
    /\ UNCHANGED <<composeVars, runnerVars, cfg, trace, allErrors, failedBackups>>

\* backupExec and maintenanceExec of runAllBackups, exec of runBackup and of
\* runCheckCmd: executor.New
RunNewExecutor == AtStep({"newBackup", "newMaintenance", "new"}) /\ NewFor(Current)

Issue(step) ==
    /\ EnterCall(IF step.capture THEN "RunDuplicacyCaptureWithStorage"
                 ELSE "RunDuplicacyWithStorage", step.storage, step.args)
    /\ rpc' = [rpc EXCEPT !.at = "wait"]
    /\ trace' = Append(trace, Event("issue", step))
    /\ UNCHANGED <<cfg, allErrors, failedBackups>>

\* a backup, a prune or a check is invoked
RunIssue == AtStep({"backup", "prune", "check"}) /\ Issue(Current)

RunExecuteExit == ExitWith(RunProcessOutcomes)

\* variant: the stats update begins whatever the parse returned
AfterParseIgnoringError(parsed) == [rpc EXCEPT !.at = "statsRead", !.dayStats = parsed.stats]

\* the report of a check was parsed: a warning, or the stats update begins
AfterParse(parsed) ==
    IF parsed.err # NilError
    THEN [NextStep EXCEPT !.warnings = Append(@, <<"failed to parse check output for stats">>)]
    ELSE [rpc EXCEPT !.at = "statsRead", !.dayStats = parsed.stats]

\* variant: the first error ends the command
ReturnedStopAtError(step) ==
    /\ trace' = Append(trace, Event("done", step))
    /\ allErrors' = IF result.err # NilError
                    THEN Append(allErrors, step.label \o <<":", SP>> \o result.err.msg)
                    ELSE allErrors
    /\ rpc' = IF result.err # NilError
              THEN [rpc EXCEPT !.at = "step", !.i = Len(rpc.plan) + 1]
              ELSE IF step.capture /\ ~statsWriter(cfg).isNil /\ result.out # NoString
              THEN AfterParse(ParseCheckOutput(result.out))
              ELSE NextStep
    /\ UNCHANGED <<opts, composeVars, discoverVars, runnerVars, cfg, failedBackups>>

\* allErrors of runAllBackups and of runBackup; runCheckCmd keeps the fact
\* alone (hasErrors), here the list is not empty
Returned(step) ==
    /\ trace' = Append(trace, Event("done", step))
    /\ allErrors' = IF result.err # NilError
                    THEN Append(allErrors, step.label \o <<":", SP>> \o result.err.msg)
                    ELSE allErrors
    /\ rpc' = IF result.err # NilError
              THEN [NextStep EXCEPT !.backupFailed = IF step.kind = "backup" THEN TRUE ELSE @]
              ELSE IF step.capture /\ ~statsWriter(cfg).isNil /\ result.out # NoString
              THEN AfterParse(ParseCheckOutput(result.out))
              ELSE NextStep
    /\ UNCHANGED <<opts, composeVars, discoverVars, runnerVars, cfg, failedBackups>>

\* the invocation has returned: its error is recorded; after a check without
\* error the report is parsed when there is a stats writer and some output
RunReturned == rpc.at = "wait" /\ call.at = "done" /\ Returned(Current)

EndBackup(step) ==
    /\ failedBackups' = IF rpc.backupFailed THEN Append(failedBackups, step.backup)
                        ELSE failedBackups
    /\ rpc' = [rpc EXCEPT !.i = @ + 1]
    /\ UNCHANGED <<opts, composeVars, discoverVars, runnerVars, cfg, trace, allErrors>>

\* the end of the loop over the destinations of a backup
RunEndBackup == AtStep({"endBackup"}) /\ EndBackup(Current)

Skipped(plan) ==
    [rpc EXCEPT !.i = IF allErrors = <<>> THEN @ + 1 ELSE Len(plan) + 1]

\* runBackup: the checks and the prunes are left out once there is an error
RunGate ==
    /\ AtStep({"gate"})
    /\ rpc' = Skipped(rpc.plan)
    /\ UNCHANGED <<opts, composeVars, discoverVars, runnerVars, cfg, trace, allErrors,
                   failedBackups>>

\* ---------------------------------------------------------- stats writer
\* TodayDate, and another day
Today == <<"2025-12-29">>
Yesterday == <<"2025-12-28">>

\* a file that holds the JSON of the entries; a file that is no JSON
Json(entries) == [json |-> TRUE, entries |-> entries]
Garbage == [json |-> FALSE, entries |-> EmptyMap]

\* json.Unmarshal of the output of cat <path> 2>/dev/null || echo '{}'
Unmarshal(path) ==
    IF path \notin DOMAIN files \/ ~files[path].json THEN EmptyMap ELSE files[path].entries

StatsEvent(ev, step) == Event(ev, [step EXCEPT !.kind = "stats"])

ReadStats(w, step) ==
    /\ trace' = Append(trace, StatsEvent("issue", step))
    /\ \E started \in BOOLEAN :
          IF started
          THEN /\ launched' = Append(launched, ReadStatsCommand(w, step.storage))
               /\ rpc' = [rpc EXCEPT !.at = "statsReadWait"]
          ELSE /\ rpc' = [rpc EXCEPT !.at = "statsWrite", !.existing = EmptyMap]
               /\ UNCHANGED launched
    /\ UNCHANGED <<opts, composeVars, runnerVars, cfg, allErrors, failedBackups, discoveredPath,
                   discoverErr, onceDone, onceM, pc, ncalls, procOut, bodyRuns, bodyOpts,
                   returned>>

\* UpdateStorageStats, readStatsFile: the file is read by a process (in
\* dry-run mode too), unless bash is not to be found
StatsRead == rpc.at = "statsRead" /\ ReadStats(statsWriter(cfg), Current)

ReadExit(path) ==
    /\ \E ok \in BOOLEAN :
          rpc' = [rpc EXCEPT !.at = "statsWrite",
                             !.existing = IF ok THEN Unmarshal(path) ELSE EmptyMap]
    /\ UNCHANGED <<opts, composeVars, discoverVars, runnerVars, cfg, trace, allErrors,
                   failedBackups>>

\* readStatsFile: the process has ended; after a failure, or output that is
\* no JSON, the statistics start afresh
StatsReadExit ==
    rpc.at = "statsReadWait" /\ ReadExit(statsFile(statsWriter(cfg), Current.storage))

UpdateDone(warning) ==
    [rpc EXCEPT !.at = "step", !.i = @ + 1, !.dayStats = NilStats, !.existing = EmptyMap,
                !.warnings = IF warning THEN Append(@, <<"failed to update stats">>) ELSE @]

WriteStats(w, step) ==
    /\ IF w.DryRun
       THEN /\ rpc' = UpdateDone(FALSE)
            /\ trace' = Append(trace, StatsEvent("done", step))
            /\ UNCHANGED launched
       ELSE \E started \in BOOLEAN :
               IF started
               THEN /\ launched' = Append(launched, WriteStatsCommand(w, step.storage))
                    /\ rpc' = [rpc EXCEPT !.at = "statsWriteWait"]
                    /\ UNCHANGED trace
               ELSE /\ rpc' = UpdateDone(TRUE)
                    /\ trace' = Append(trace, StatsEvent("done", step))
                    /\ UNCHANGED launched
    /\ UNCHANGED <<opts, composeVars, runnerVars, cfg, allErrors, failedBackups, discoveredPath,
                   discoverErr, onceDone, onceM, pc, ncalls, procOut, bodyRuns, bodyOpts,
                   returned>>

\* writeStatsFile: in dry-run mode the text is printed; else a process writes
\* the file, unless bash is not to be found
StatsWrite == rpc.at = "statsWrite" /\ WriteStats(statsWriter(cfg), Current)

\* existingStats[today] = dayStats, written back
Updated(existing, dayStats) == (Today :> dayStats) @@ existing

WriteExit(step, path) ==
    /\ \E ok \in BOOLEAN :
          /\ rpc' = UpdateDone(~ok)
          /\ files' = IF ok THEN (path :> Json(Updated(rpc.existing, rpc.dayStats))) @@ files
                      ELSE files
    /\ trace' = Append(trace, StatsEvent("done", step))
    /\ UNCHANGED <<opts, composeVars, discoverVars, proc, tracker, cfg, allErrors,
                   failedBackups>>

\* writeStatsFile: the process has ended; the file holds the new text when
\* it ended well
StatsWriteExit ==
    rpc.at = "statsWriteWait"
        /\ WriteExit(Current, statsFile(statsWriter(cfg), Current.storage))

\* ------------------------------------------------------------- notifier
\* the requests of the notifier
ListIssues == [method |-> "GET", what |-> "issues"]
PostComment(id, body) == [method |-> "POST", what |-> "comment", issue |-> id, body |-> body]
PostIssue(title, body, assignee) ==
    [method |-> "POST", what |-> "issue", title |-> title, body |-> body,
     assignees |-> IF assignee = NoString THEN <<>> ELSE <<assignee>>]

\* CreateOrUpdateIssue is entered: findExistingIssue asks for the open issues
NotifierEnter(title, body, assignee) ==
    tracker' = [tracker EXCEPT !.at = "search", !.title = title, !.body = body,
                               !.assignee = assignee, !.err = NilError,
                               !.requests = Append(@, ListIssues), !.calls = @ + 1]

\* variant: the first open issue is taken, whatever its title
findExistingIssueAnyTitle(issues, title) == IF issues = <<>> THEN 0 ELSE issues[1].number

\* findExistingIssue: the number of the first issue with the title, else 0
FirstWithTitle(issues, hits) == IF hits = {} THEN 0 ELSE issues[FirstOr(hits, 0)].number
findExistingIssue(issues, title) ==
    FirstWithTitle(issues, {i \in DOMAIN issues : issues[i].title = title})

ErrSearch(cause) ==
    WrapErrorf(<<"failed to search for existing issues:", SP>> \o cause)

\* the outcomes of a request: no response, a status that is not the expected
\* one, and (for the list of issues) a body that is no JSON
FailedRequests ==
    {<<"connection refused">>, <<"API returned status 500">>}
FailedSearches == FailedRequests \cup {<<"invalid character">>}

\* the write that follows the search
Write(existingID) ==
    [tracker EXCEPT !.at = "write",
                    !.requests = Append(@, IF existingID > 0
                                           THEN PostComment(existingID, tracker.body)
                                           ELSE PostIssue(tracker.title, tracker.body,
                                                          tracker.assignee))]

\* findExistingIssue returns: an error ends the call, else a comment is
\* added to the issue found or an issue is created
FindReturns ==
    /\ tracker.at = "search"
    /\ \/ \E cause \in FailedSearches :
             tracker' = [tracker EXCEPT !.at = "done", !.err = ErrSearch(cause)]
       \/ tracker' = Write(findExistingIssue(tracker.issues, tracker.title))
    /\ UNCHANGED <<opts, composeVars, discoverVars, proc, files, runAllVars>>

NextNumber(issues) == Max({0} \cup {issues[i].number : i \in DOMAIN issues}) + 1

\* the tracker after the request was served with status 201
Served(issues, request) ==
    IF request.what = "issue"
    THEN Append(issues, [number |-> NextNumber(issues), title |-> request.title, comments |-> 0])
    ELSE [i \in DOMAIN issues |->
             IF issues[i].number = request.issue
             THEN [issues[i] EXCEPT !.comments = @ + 1] ELSE issues[i]]

\* createIssue and addComment return: nil after status 201, else the error
WriteReturns ==
    /\ tracker.at = "write"
    /\ \/ \E cause \in FailedRequests :
             tracker' = [tracker EXCEPT !.at = "done", !.err = Errorf(cause)]
       \/ tracker' = [tracker EXCEPT !.at = "done",
                                     !.issues = Served(@, tracker.requests[Len(tracker.requests)])]
    /\ UNCHANGED <<opts, composeVars, discoverVars, proc, files, runAllVars>>

\* ------------------------------------------- the end of a command
\* the title of the issue of runAllBackups and of runBackup
IssueTitle(c, failed) ==
    IF c.command = "backup"
    THEN <<"[duplicaci]", SP>> \o c.repository \o <<":", SP, "backup failed">>
    ELSE IF failed # <<>>
    THEN <<"[duplicaci]", SP>> \o Join(failed, <<",", SP>>) \o <<":", SP, "backup failed">>
    ELSE <<"[duplicaci]", SP, "maintenance failed">>

\* the body of the issue: the errors, its layout left out
IssueBody(errors) == Join(errors, <<NL>>)

Configured(forgejo) ==
    forgejo.URL # NoString /\ forgejo.Repo # NoString /\ forgejo.Token # NoString

\* the commands that report their errors to the tracker: runAllBackups when
\* URL, repository and token are configured, runBackup with --create-issues
Notifies(c) ==
    CASE c.command = "backup" -> c.createIssues
      [] c.command = "check" -> FALSE
      [] OTHER -> Configured(c.Notifications.Forgejo)

AtEnd(plan) == rpc.at = "step" /\ rpc.i > Len(plan)

Notify(c) ==
    IF Configured(c.Notifications.Forgejo)
    THEN /\ NotifierEnter(IssueTitle(c, failedBackups), IssueBody(allErrors),
                          c.Notifications.Forgejo.Assignee)
         /\ rpc' = [rpc EXCEPT !.at = "notify"]
    ELSE /\ rpc' = [rpc EXCEPT !.at = "notify",
                               !.warnings = Append(@, <<"Failed to create issue">>)]
         /\ tracker' = [tracker EXCEPT !.at = "done", !.err = NilError]

\* sendRunFailureNotification, sendFailureNotification: after errors
RunNotify ==
    /\ AtEnd(rpc.plan)
    /\ allErrors # <<>>
    /\ Notifies(cfg)
    /\ Notify(cfg)
    /\ UNCHANGED <<opts, composeVars, discoverVars, proc, files, cfg, trace, allErrors,
                   failedBackups>>

\* variant: the warnings count as errors
SummaryErrorWithWarnings(c, errors) ==
    IF errors = <<>> /\ rpc.warnings = <<>> THEN NilError
    ELSE Errorf(<<"completed with", SP>> \o FormatInt(Len(errors) + Len(rpc.warnings))
                    \o <<SP, "error(s)">>)

\* the error of the command
SummaryError(c, errors) ==
    IF errors = <<>> THEN NilError
    ELSE CASE c.command = "backup" ->
                  Errorf(<<"backup completed with", SP>> \o FormatInt(Len(errors))
                             \o <<SP, "error(s)">>)
           [] c.command = "check" -> Errorf(<<"check completed with errors">>)
           [] OTHER -> Errorf(<<"completed with", SP>> \o FormatInt(Len(errors))
                                  \o <<SP, "error(s)">>)

\* the summary: nil, or the number of errors; a notification that failed is
\* a warning
RunSummary ==
    /\ \/ AtEnd(rpc.plan) /\ ~(allErrors # <<>> /\ Notifies(cfg))
       \/ rpc.at = "notify" /\ tracker.at = "done"
    /\ rpc' = [rpc EXCEPT !.at = "returned", !.err = SummaryError(cfg, allErrors),
                          !.warnings = IF rpc.at = "notify" /\ tracker.err # NilError
                                       THEN Append(@, <<"Failed to create issue">>) ELSE @]
    /\ UNCHANGED <<opts, composeVars, discoverVars, runnerVars, cfg, trace, allErrors,
                   failedBackups>>

NextRunAll ==
    \/ RunStart
    \/ RunNewExecutor
    \/ RunIssue
    \/ OnceFast(1)
    \/ OnceLock(1)
    \/ DiscoverBody(1)
    \/ DiscoverExit(1)
    \/ OnceFinish(1)
    \/ OnceUnlock(1)
    \/ Return(1)
    \/ RunAfterDiscover
    \/ Execute
    \/ RunExecuteExit
    \/ RunReturned
    \/ RunEndBackup
    \/ StatsRead
    \/ StatsReadExit
    \/ StatsWrite
    \/ StatsWriteExit
    \/ RunNotify
    \/ FindReturns
    \/ WriteReturns
    \/ RunSummary

SpecRunAll == InitRunAll /\ [][NextRunAll]_vars

\* ------------------------------------------- backup and check commands
\* the default of --prune-options
DefaultPruneOptions ==
    <<"-keep", SP, "0:180", SP, "-keep", SP, "7:14", SP, "-keep", SP, "1:1", SP, "-a">>

\* the flags of the backup command, in a container
BackupFlags(repository, storages, check, prune, issues, forgejo) ==
    [command |-> "backup",
     Connection |-> [Host |-> NoString, Container |-> <<"C">>, GCDToken |-> NoString],
     dryRun |-> FALSE, verbose |-> FALSE, repository |-> repository, storages |-> storages,
     backupOptions |-> <<"-threads", SP, "4">>, runCheck |-> check, runPrune |-> prune,
     pruneOptions |-> DefaultPruneOptions, createIssues |-> issues,
     Notifications |-> [Forgejo |-> forgejo], repoPath |-> <<"/data">>, cacheDir |-> NoString,
     updateStats |-> FALSE]

\* the flags of the check command
CheckFlags(storages, container, update) ==
    [command |-> "check",
     Connection |-> [Host |-> NoString, Container |-> container, GCDToken |-> NoString],
     dryRun |-> FALSE, verbose |-> FALSE, repository |-> NoString, storages |-> storages,
     backupOptions |-> NoString, runCheck |-> FALSE, runPrune |-> FALSE,
     pruneOptions |-> DefaultPruneOptions, createIssues |-> FALSE,
     Notifications |-> [Forgejo |-> NoForgejo], repoPath |-> <<"/data">>, cacheDir |-> NoString,
     updateStats |-> update]

TwoStorages == <<<<"s">>, <<"g">>>>

\* backup commands with and without --check, --prune and --create-issues,
\* one without tracker, one without repository and one without storage;
\* check commands with and without container and --update-stats, one
\* without storage; and one run
CommandConfigs ==
    {BackupFlags(<<"a">>, TwoStorages, check, prune, issues, Forgejo) :
         check \in BOOLEAN, prune \in BOOLEAN, issues \in BOOLEAN}
        \cup {BackupFlags(<<"a">>, TwoStorages, TRUE, TRUE, TRUE, NoForgejo),
              BackupFlags(NoString, TwoStorages, TRUE, TRUE, FALSE, Forgejo),
              BackupFlags(<<"a">>, <<>>, TRUE, TRUE, FALSE, Forgejo)}
        \cup {CheckFlags(TwoStorages, container, update) :
                  container \in {NoString, <<"C">>}, update \in BOOLEAN}
        \cup {CheckFlags(<<>>, <<"C">>, TRUE)}
        \cup {c \in RunConfigs : c.Backups = SingleConfig.Backups /\ ~c.dryRun}

InitCommands ==
    /\ InitCommand
    /\ cfg \in CommandConfigs
    /\ files = <<>>

NextCommands ==
    \/ RunStart
    \/ RunNewExecutor
    \/ RunIssue
    \/ OnceFast(1)
    \/ OnceLock(1)
    \/ DiscoverBody(1)
    \/ DiscoverExit(1)
    \/ OnceFinish(1)
    \/ OnceUnlock(1)
    \/ Return(1)
    \/ RunAfterDiscover
    \/ Execute
    \/ RunExecuteExit
    \/ RunReturned
    \/ RunEndBackup
    \/ RunGate
    \/ StatsRead
    \/ StatsReadExit
    \/ StatsWrite
    \/ StatsWriteExit
    \/ RunNotify
    \/ FindReturns
    \/ WriteReturns
    \/ RunSummary

SpecCommands == InitCommands /\ [][NextCommands]_vars

\* ------------------------------------------- calls of the notifier
MaxNotify == 2

TitleA == <<"[duplicaci]", SP, "a", ":", SP, "backup failed">>
TitleM == <<"[duplicaci]", SP, "maintenance failed">>

OpenIssue(number, title) == [number |-> number, title |-> title, comments |-> 0]

\* the open issues of the repository before the calls: none, one with the
\* title, one with another title, one whose title only begins with the
\* title, and several of which two have the title
OpenIssues ==
    {<<>>,
     <<OpenIssue(1, TitleA)>>,
     <<OpenIssue(1, TitleM)>>,
     <<OpenIssue(1, TitleA \o <<SP, "(again)">>)>>,
     <<OpenIssue(3, TitleM), OpenIssue(5, TitleA), OpenIssue(7, TitleA)>>}

InitNotify ==
    /\ InitProgram
    /\ cfg \in {c \in RunConfigs : c.Backups = SingleConfig.Backups /\ ~c.dryRun}
    /\ files = <<>>
    /\ \E issues \in OpenIssues : tracker = [NoTracker EXCEPT !.issues = issues]

\* CreateOrUpdateIssue is called, after SetAssignee or without
NotifyCall ==
    /\ tracker.at \in {"idle", "done"}
    /\ tracker.calls < MaxNotify
    /\ \E title \in {TitleA, TitleM}, assignee \in {NoString, <<"admin">>} :
          NotifierEnter(title, <<"errors">>, assignee)
    /\ UNCHANGED <<opts, composeVars, discoverVars, proc, files, runAllVars>>

NextNotify ==
    \/ NotifyCall
    \/ FindReturns
    \/ WriteReturns

SpecNotify == InitNotify /\ [][NextNotify]_vars

\* ------------------------------------------- runs over stats files
\* an entry of an earlier update
OldStats == [NewDayStats EXCEPT !.PrunedChunks = 3, !.Status = "Pruned"]

\* the stats files of the storages s and g
FileOfS == <<"/config/stats/storages", "/", "s", ".stats">>
FileOfG == <<"/config/stats/storages", "/", "g", ".stats">>

\* what the container holds before the run: no file of s, one that is no
\* JSON, an empty one, and files with entries of today and of another day;
\* beside it, or not, the file of another storage
FilesBefore ==
    {s @@ g : s \in {<<>>, FileOfS :> Garbage, FileOfS :> Json(EmptyMap),
                     FileOfS :> Json(Yesterday :> OldStats), FileOfS :> Json(Today :> OldStats),
                     FileOfS :> Json((Yesterday :> OldStats) @@ (Today :> OldStats))},
              g \in {<<>>, FileOfG :> Json(Yesterday :> OldStats)}}

InitStats ==
    /\ InitCommand
    /\ cfg \in {c \in RunConfigs : c.Backups = SingleConfig.Backups}
    /\ files \in FilesBefore

SpecStats == InitStats /\ [][NextRunAll]_vars

\* -------------------------------------------------- run command: claims
Kinds(evs) == {trace[i].kind : i \in {j \in DOMAIN trace : trace[j].ev \in evs}}

\* C13: with dry-run enabled the run command starts no process in any phase
\* (discovery, backup, prune, check, stats read, stats write) and, for a
\* valid configuration, records no error and no warning and returns nil
C13_DryRunLaunchesNothing ==
    cfg.dryRun =>
        /\ launched = <<>>
        /\ proc = NoProc
        /\ allErrors = <<>>
        /\ failedBackups = <<>>
        /\ rpc.warnings = <<>>
        /\ (rpc.at = "returned" /\ Validate(cfg) = NilError => rpc.err = NilError)

\* a dry run of a valid configuration in a container has returned after
\* its backups, prunes and checks
C13_Witness ==
    /\ cfg.dryRun
    /\ cfg.Connection.Container # NoString
    /\ Validate(cfg) = NilError
    /\ rpc.at = "returned"
    /\ Kinds({"done"}) = {"backup", "prune", "check"}

Rank(kind) == CASE kind = "backup" -> 1 [] kind = "prune" -> 2 [] OTHER -> 3

\* C20: the invocations of a run are issued one at a time, each one done
\* before the next is issued; the backups come before the prunes and the
\* prunes before the checks; the stats update of a storage directly follows
\* the completed check of that storage
C20_PhasesInOrder ==
    /\ \A i \in DOMAIN trace :
          IF i % 2 = 1 THEN trace[i].ev = "issue"
          ELSE trace[i] = [trace[i - 1] EXCEPT !.ev = "done"]
    /\ \A i, j \in DOMAIN trace : i < j => Rank(trace[i].kind) <= Rank(trace[j].kind)
    /\ \A j \in DOMAIN trace :
          trace[j].kind = "stats" /\ trace[j].ev = "issue" =>
              /\ j > 1
              /\ trace[j - 1] = [trace[j] EXCEPT !.ev = "done", !.kind = "check"]

\* a run has returned after backups, prunes, checks and a stats update, with
\* more than one storage or more than one backup
C20_Witness ==
    /\ rpc.at = "returned"
    /\ Kinds({"done"}) = {"backup", "prune", "check", "stats"}
    /\ Len(SelectSeq(trace, LAMBDA e : e.kind = "check" /\ e.ev = "issue")) >= 1
    /\ Len(SelectSeq(trace, LAMBDA e : e.kind = "backup" /\ e.ev = "issue")) >= 2

\* the invocations of a kind on a storage, in the order they were issued
Issued(kind, storage) ==
    SelectSeq(trace, LAMBDA e : e.ev = "issue" /\ e.kind = kind /\ e.storage = storage)

\* the run went through its phases and has returned
RunCompleted == rpc.at = "returned" /\ cfg.command = "run" /\ Validate(cfg) = NilError

Carries(args, flag) == \E i \in DOMAIN args : args[i] = flag

\* the arguments of a prune of all repositories, of one repository
ArgsForAll(storage, retention) ==
    <<<<"prune">>, <<"-storage">>, storage>> \o Fields(ToPruneOptions(retention))
ArgsForOne(storage, b) ==
    <<<<"prune">>, <<"-storage">>, storage, <<"-id">>, b.Name>>
        \o Fields(toPruneOptions(b.Retention, FALSE))

\* the backups of the configuration that have the storage as a destination
Targeting(c, storage) ==
    SelectSeq(c.Backups, LAMBDA b : \E d \in DOMAIN b.Destinations : b.Destinations[d] = storage)

PrunedByOneStrategy(c, storage, prunes) ==
    IF storage \in DOMAIN c.Storages
    THEN /\ Len(prunes) = 1
         /\ prunes[1].args = ArgsForAll(storage, c.Storages[storage].Retention)
         /\ Carries(prunes[1].args, <<"-a">>)
         /\ ~Carries(prunes[1].args, <<"-id">>)
    ELSE IF Targeting(c, storage) # <<>>
    THEN /\ Len(prunes) = Len(Targeting(c, storage))
         /\ \A k \in DOMAIN prunes :
               /\ prunes[k].args = ArgsForOne(storage, Targeting(c, storage)[k])
               /\ ~Carries(prunes[k].args, <<"-a">>)
    ELSE /\ Len(prunes) = 1
         /\ prunes[1].args = ArgsForAll(storage, [ZeroRetention EXCEPT !.Daily = 7, !.Weekly = 4])
         /\ Carries(prunes[1].args, <<"-a">>)
         /\ ~Carries(prunes[1].args, <<"-id">>)

\* C30: in the prune phase of run every storage is pruned by exactly one
\* strategy: with a retention of the storage, one prune of all repositories
\* with -a; else, when backups have the storage as a destination, one prune
\* per such backup with -id <backup>, without -a, with the retention of that
\* backup; else one prune with the default retention and -a. No prune that
\* is issued carries both -id and -a.
C30_OneStrategyPerStorage ==
    /\ \A k \in DOMAIN trace :
          trace[k].kind = "prune" =>
              ~(Carries(trace[k].args, <<"-id">>) /\ Carries(trace[k].args, <<"-a">>))
    /\ RunCompleted =>
          \A i \in DOMAIN AllStorages(cfg) :
              PrunedByOneStrategy(cfg, AllStorages(cfg)[i], Issued("prune", AllStorages(cfg)[i]))

\* a run of the configuration with the three kinds of storage has returned
C30_Witness ==
    /\ RunCompleted
    /\ Len(AllStorages(cfg)) = 3
    /\ Len(Issued("prune", <<"s">>)) = 1
    /\ Carries(Issued("prune", <<"g">>)[1].args, <<"-id">>)
    /\ Carries(Issued("prune", <<"b">>)[1].args, <<"-a">>)

\* the operations issued so far, of the three kinds
Operations == SelectSeq(trace, LAMBDA e : e.ev = "issue" /\ e.kind \in {"backup", "prune", "check"})

\* the invocations of the backup of a name to a destination
BackupsIssued(name, storage) ==
    SelectSeq(Issued("backup", storage), LAMBDA e : e.backup = name)

\* the number of prunes the configuration asks for on a storage
PrunesOf(c, storage) ==
    IF storage \in DOMAIN c.Storages \/ Targeting(c, storage) = <<>> THEN 1
    ELSE Len(Targeting(c, storage))

AllAttemptedOnce(c) ==
    /\ \A b \in DOMAIN c.Backups : \A d \in DOMAIN c.Backups[b].Destinations :
          Len(BackupsIssued(c.Backups[b].Name, c.Backups[b].Destinations[d])) = 1
    /\ \A i \in DOMAIN AllStorages(c) :
          /\ Len(Issued("check", AllStorages(c)[i])) = 1
          /\ Len(Issued("prune", AllStorages(c)[i])) = PrunesOf(c, AllStorages(c)[i])
          /\ \A j, k \in DOMAIN Issued("prune", AllStorages(c)[i]) :
                j # k => Issued("prune", AllStorages(c)[i])[j].backup
                             # Issued("prune", AllStorages(c)[i])[k].backup
    /\ \A k \in DOMAIN Operations :
          \E i \in DOMAIN AllStorages(c) : Operations[k].storage = AllStorages(c)[i]

\* how far the command has got: the step it is at, and within the step the
\* position of the invocation, of the stats update or of the notification
InDiscover ==
    CASE pc[1] = "fast" -> 1 [] pc[1] = "lock" -> 2 [] pc[1] = "body" -> 3
      [] pc[1] = "wait" -> 4 [] pc[1] = "finish" -> 5 [] pc[1] = "skip" -> 6
      [] pc[1] = "return" -> 7 [] OTHER -> 8
InCall ==
    CASE call.at = "discover" -> InDiscover [] call.at = "execute" -> 10
      [] call.at = "wait" -> 11 [] OTHER -> 12
InNotifier ==
    CASE tracker.at = "search" -> 1 [] tracker.at = "write" -> 2 [] OTHER -> 3
InStep ==
    CASE rpc.at = "wait" -> InCall
      [] rpc.at = "statsRead" -> 20 [] rpc.at = "statsReadWait" -> 21
      [] rpc.at = "statsWrite" -> 22 [] rpc.at = "statsWriteWait" -> 23
      [] rpc.at = "notify" -> 30 + InNotifier
      [] rpc.at = "returned" -> 40
      [] OTHER -> 0
Progress == (rpc.i * 50) + InStep
MaxProgress == ((Len(rpc.plan) + 1) * 50) + 40

\* the command is not stuck: at a step of its plan the statement of that
\* step can be executed; within the discovery of the binary, the read of a
\* stats file or a notification the next action is enabled; everywhere
\* else the position alone is the guard of the next action
HasStep ==
    CASE rpc.at = "step" ->
             \/ AtEnd(rpc.plan)
             \/ AtStep({"newBackup", "newMaintenance", "new", "endBackup", "gate"})
             \/ AtStep({"backup", "prune", "check"}) /\ pc[1] = "idle"
      [] rpc.at = "wait" ->
             \/ call.at \in {"execute", "wait", "done"}
             \/ call.at = "discover" /\ pc[1] = "idle"
             \/ ENABLED (\/ OnceFast(1) \/ OnceLock(1) \/ DiscoverBody(1) \/ DiscoverExit(1)
                         \/ OnceFinish(1) \/ OnceUnlock(1) \/ Return(1))
      [] rpc.at = "statsReadWait" -> ENABLED StatsReadExit
      [] rpc.at = "notify" -> tracker.at = "done" \/ ENABLED (FindReturns \/ WriteReturns)
      [] OTHER -> rpc.at \in {"start", "statsRead", "statsWrite", "statsWriteWait", "returned"}

\* C25: in the run command a failed operation never prevents the later
\* ones: when the run has returned, every (backup, destination) pair, every
\* prune of every storage and every check of every storage of AllStorages
\* was attempted exactly once, whatever the outcomes before it; and every
\* run reaches its summary and returns: as long as it has not returned it
\* has a step to take, and every step takes it further, within a bound.
C25_EveryOperationAttempted ==
    /\ [](RunCompleted => AllAttemptedOnce(cfg))
    /\ [](HasStep /\ Progress <= MaxProgress)
    /\ [][/\ Progress' > Progress
          /\ (rpc'.at = "returned" /\ rpc.at # "start") =>
                 (rpc.at = "notify" \/ AtEnd(rpc.plan))]_vars

\* a run of which every operation failed has attempted all eight of them
C25_Witness ==
    /\ RunCompleted
    /\ Len(Operations) = 8
    /\ Len(allErrors) = 8

\* an invocation of duplicacy has returned to the command
InvocationReturns == rpc.at = "wait" /\ call.at = "done" /\ rpc' # rpc

\* the text of the error of a run with n failed invocations
CompletedWith(n) ==
    <<"completed with", SP>> \o FormatInt(n) \o <<SP, "error(s)">>

\* C26: the run command returns an error if and only if at least one
\* backup, prune or check invocation returned an error, and the count it
\* reports is the number of failed invocations: the list of errors grows by
\* one exactly when an invocation returns an error, and at the return the
\* result is nil when the list is empty, else the count and the length of
\* the list agree. A parse that fails, a stats file that is not written and
\* a notification that fails add a warning and leave the list alone.
C26_ErrorIffInvocationFailed ==
    /\ [][/\ InvocationReturns =>
                Len(allErrors') = Len(allErrors) + (IF result.err # NilError THEN 1 ELSE 0)
          /\ ~InvocationReturns => allErrors' = allErrors
          /\ rpc'.warnings # rpc.warnings => allErrors' = allErrors]_vars
    /\ [](RunCompleted =>
             IF allErrors = <<>> THEN rpc.err = NilError
             ELSE rpc.err.type # "nil" /\ rpc.err.msg = CompletedWith(Len(allErrors)))

\* a run has returned one error after one failed invocation and two warnings
C26_Witness ==
    /\ RunCompleted
    /\ Len(rpc.warnings) = 2
    /\ Len(allErrors) = 1
    /\ rpc.err.msg = CompletedWith(1)

\* the entries of a stats file; a file that is absent or no JSON has none
Entries(fs, path) ==
    IF path \notin DOMAIN fs \/ ~fs[path].json THEN EmptyMap ELSE fs[path].entries

OnlyTodayChanged(before, after, dayStats) ==
    /\ DOMAIN after = DOMAIN before \cup {Today}
    /\ after[Today] = dayStats
    /\ \A date \in DOMAIN before \ {Today} : after[date] = before[date]

\* C29: UpdateStorageStats changes the entry of today alone: when it has
\* written the stats file of a storage, every entry of another date that
\* was in the file before the call is in it, unchanged, after the call, the
\* entry of today is the DayStats passed in, and no other file has changed.
C29_OnlyTodayChanges ==
    [][files' # files =>
          /\ rpc.at = "statsWriteWait"
          /\ \A path \in DOMAIN files \cup DOMAIN files' :
                IF path = statsFile(statsWriter(cfg), Current.storage)
                THEN OnlyTodayChanged(Entries(files, path), Entries(files', path), rpc.dayStats)
                ELSE path \in DOMAIN files /\ path \in DOMAIN files' /\ files'[path] = files[path]]_vars

\* the command has gone through its steps and has returned
CommandRan(command) == rpc.at = "returned" /\ cfg.command = command /\ rpc.plan # <<>>

\* the step issues an invocation of the kind, the first of its kind or not
Issues(kind) ==
    /\ Len(trace') = Len(trace) + 1
    /\ trace'[Len(trace')].ev = "issue"
    /\ trace'[Len(trace')].kind = kind
FirstOf(kind) == \A k \in DOMAIN trace : trace[k].kind # kind

\* the errors of the command that a phase has added: the texts begin with
\* "backup to", "check on" and "prune on"
FailedIn(phase) == \E k \in DOMAIN allErrors : allErrors[k][1] = phase

EveryStorage(c, kind, times) == \A i \in DOMAIN c.storages : Len(Issued(kind, c.storages[i])) = times

RankInBackup(kind) == CASE kind = "backup" -> 1 [] kind = "check" -> 2 [] OTHER -> 3

\* C27: in the backup command the phases run in the order backup, check,
\* prune. The checks are issued only with --check and after every backup
\* has succeeded; the prunes only with --prune and after no backup and no
\* check has failed. After a failed backup the backups to the remaining
\* storages are still attempted (each storage is backed up once, whatever
\* the outcomes), and no check and no prune is issued. When its condition
\* holds a phase runs over every storage.
C27_BackupCheckPrune ==
    /\ [](cfg.command = "backup" =>
             \A i, j \in DOMAIN trace :
                 i < j => RankInBackup(trace[i].kind) <= RankInBackup(trace[j].kind))
    /\ [][cfg.command = "backup" =>
             /\ InvocationReturns =>
                   Len(allErrors') = Len(allErrors) + (IF result.err # NilError THEN 1 ELSE 0)
             /\ Issues("check") =>
                   cfg.runCheck /\ ~FailedIn("backup to") /\ EveryStorage(cfg, "backup", 1)
             /\ Issues("check") /\ FirstOf("check") => allErrors = <<>>
             /\ Issues("prune") =>
                   /\ cfg.runPrune /\ ~FailedIn("backup to") /\ ~FailedIn("check on")
                   /\ EveryStorage(cfg, "backup", 1)
             /\ Issues("prune") /\ FirstOf("prune") => allErrors = <<>>]_vars
    /\ [](CommandRan("backup") =>
             /\ EveryStorage(cfg, "backup", 1)
             /\ EveryStorage(cfg, "check",
                             IF cfg.runCheck /\ ~FailedIn("backup to") THEN 1 ELSE 0)
             /\ EveryStorage(cfg, "prune",
                             IF cfg.runPrune /\ ~FailedIn("backup to") /\ ~FailedIn("check on")
                             THEN 1 ELSE 0))

\* a backup command with --check and --prune has returned after two backups,
\* two checks and two prunes
C27_Witness ==
    /\ CommandRan("backup")
    /\ Len(Operations) = 6
    /\ Kinds({"done"}) = {"backup", "check", "prune"}

\* the check of the storage of the current step has just returned to the
\* command, without error and with output that parses
CheckedWell ==
    /\ rpc.at = "wait"
    /\ call.at = "done"
    /\ Current.kind = "check"
    /\ call.storageName = Current.storage
    /\ result.err = NilError
    /\ result.out # NoString
    /\ ParseCheckOutput(result.out).err = NilError

InStatsUpdate == rpc.at \in {"statsRead", "statsReadWait", "statsWrite", "statsWriteWait"}

\* C28: in the run and check commands the stats file of a storage is
\* updated only when a container is configured (and, for check,
\* --update-stats was given), the check of that storage returned no error,
\* its captured output is not empty and the output was parsed without
\* error: a stats update begins only at the return of such a check, for the
\* storage of that check, and the stats files change only within an update.
\* The backup command updates no stats file.
C28_StatsOnlyAfterGoodCheck ==
    [][/\ InStatsUpdate' /\ ~InStatsUpdate =>
             /\ cfg.command \in {"run", "check"}
             /\ cfg.Connection.Container # NoString
             /\ cfg.command = "check" => cfg.updateStats
             /\ CheckedWell
             /\ Current' = Current
       /\ files' # files =>
             /\ InStatsUpdate
             /\ DOMAIN files' = DOMAIN files \cup {statsFile(statsWriter(cfg), Current.storage)}
       /\ Issues("stats") => InStatsUpdate /\ trace'[Len(trace')].storage = Current.storage]_vars

\* a check command with --update-stats has written the stats files of both
\* of its storages
C28_Witness ==
    /\ CommandRan("check")
    /\ cfg.updateStats
    /\ DOMAIN files = {FileOfS, FileOfG}

\* the open issues with the title of the call
WithTitle == {i \in DOMAIN tracker.issues : tracker.issues[i].title = tracker.title}

\* the write the call owes: a comment on the first open issue with the
\* title, else a new issue
WriteOwed ==
    IF WithTitle # {}
    THEN [method |-> "POST", what |-> "comment",
          issue |-> tracker.issues[CHOOSE i \in WithTitle : \A j \in WithTitle : i <= j].number,
          body |-> tracker.body]
    ELSE [method |-> "POST", what |-> "issue", title |-> tracker.title, body |-> tracker.body,
          assignees |-> IF tracker.assignee = NoString THEN <<>> ELSE <<tracker.assignee>>]

\* C24: CreateOrUpdateIssue performs exactly one of two writes: when an
\* open issue with exactly the title exists it adds a comment to that issue
\* and creates no issue, else it creates one issue and adds no comment;
\* when the search for the open issues fails it returns an error and
\* performs neither write. After its one write the call makes no request.
C24_OneWritePerCall ==
    [][/\ (tracker.at = "search" /\ tracker' # tracker) =>
             \/ /\ tracker'.at = "done"
                /\ tracker'.err # NilError
                /\ tracker'.requests = tracker.requests
             \/ /\ tracker'.at = "write"
                /\ tracker'.requests = Append(tracker.requests, WriteOwed)
       /\ (tracker.at = "write" /\ tracker' # tracker) =>
             /\ tracker'.at = "done"
             /\ tracker'.requests = tracker.requests
       /\ (tracker.at \in {"idle", "done"} /\ tracker'.requests # tracker.requests) =>
             /\ tracker'.at = "search"
             /\ tracker'.requests = Append(tracker.requests, [method |-> "GET", what |-> "issues"])]_vars

\* two calls with the same title on a repository without open issue: the
\* first has created the issue, the second has added a comment to it
C24_Witness ==
    /\ tracker.at = "done"
    /\ tracker.err = NilError
    /\ Len(tracker.requests) = 4
    /\ tracker.requests[2].what = "issue"
    /\ tracker.requests[4].what = "comment"
    /\ tracker.requests[4].issue = 1
====
